---- MODULE Spec2Model ----
(***************************************************************************)
(* Model of the Hot Session Manager of src/src/worker.ts                   *)
(* (class HotSessionManager and the routes that call it).                  *)
(*                                                                         *)
(* The manager runs on one cooperative scheduler: an async method runs     *)
(* without interruption up to its next `await`, and other in-flight calls  *)
(* may run while it waits for the driver.  Every action below is one such  *)
(* uninterrupted run: the settling of the driver operation a call awaits,  *)
(* followed by the synchronous code up to the next driver operation.  A    *)
(* call's position is the field pc of its record.                          *)
(*                                                                         *)
(* Two reductions keep the interleavings finite and small:                 *)
(*  - an `await` of a promise that is already settled (an async method     *)
(*    that returned without waiting for the driver) continues in the same  *)
(*    action: its continuation is a microtask of the same turn of the      *)
(*    event loop, before any driver response or request is processed;      *)
(*  - consecutive driver operations on a page that no other call can       *)
(*    reach (the context and page a call is still creating: newContext,    *)
(*    newPage, goto, waitForTimeout) settle in one action, which chooses   *)
(*    the operation that fails, if any.                                    *)
(*                                                                         *)
(* Driver operations (Playwright) can fail; each awaited driver operation  *)
(* has a success and a failure outcome, and the failure is routed to the   *)
(* try/catch that encloses the await in the source.  A run has a budget of *)
(* MaxFaults rejected operations and MaxCrashes pages that die.            *)
(*                                                                         *)
(* The specifications share the actions:                                   *)
(*   Spec        the hot path, calls overlapping freely                    *)
(*   SpecSeq     the hot path, one request at a time, longer runs          *)
(*   SpecLegacy  the hot path and the legacy /interact route, one request  *)
(*               at a time                                                 *)
(*   SpecFair    the hot path, one request at a time, short runs, with     *)
(*               the progress of detached closes                           *)
(*   SpecMatch   matchAction on its own, over a range of arguments         *)
(*   SpecExec    the executors on their own, over a range of arguments     *)
(*   SpecAuth    one HTTP request through the auth middleware and the      *)
(*               routes of main()                                          *)
(*   SpecEdge    one legacy request through the edge function of           *)
(*               src/supabase/execute-action.ts                            *)
(***************************************************************************)
EXTENDS Naturals, Integers, Sequences, FiniteSets, TLC

(***************************************************************************)
(* Bounds of the model.                                                    *)
(***************************************************************************)
\* Site identifiers the callers use: 1..NumIds.
NumIds == 3
\* Concurrent public calls in flight (HTTP requests being served).
MaxCalls == 2
\* Detached closeSession() calls in flight (started without await by
\* evictOldestSession and cleanupSessions).
MaxClosers == 1
\* Browsing contexts the driver hands out during one run.
MaxHandles == 3
\* Largest value of the clock Date.now().
MaxTime == 1
\* Public calls (requests and signals) a run begins.
MaxStarted == 4
\* Public calls a run begins when calls may overlap, or may be legacy calls.
MaxOverlapped == 3
\* Driver operations that are rejected during one run.
MaxFaults == 1
\* Pages that die during one run.
MaxCrashes == 1
\* worker.ts:110 sets MAX_SESSIONS = 50.  The model scales the capacity so
\* that a full store is reached with NumIds site identifiers.
MAX_SESSIONS == 2
\* worker.ts:111 sets SESSION_TIMEOUT = 30 minutes; scaled to clock ticks: a
\* session expires when the clock has moved on since its last activity.
SESSION_TIMEOUT == 0

Ids == 1..NumIds
Slots == 1..MaxCalls
CloserSlots == 1..MaxClosers
Handles == 1..MaxHandles
Times == 0..MaxTime

VARIABLES
  isReady,     \* HotSessionManager.isReady
  browser,     \* HotSessionManager.browser: "none" | "open" | "closed"
  sessions,    \* HotSessionManager.sessions: the Map, in insertion order
  pageState,   \* driver: state of each page   "none"|"open"|"dead"|"closed"
  pageUrl,     \* driver: page.url() of each page "none"|"site"|"next"
  ctxState,    \* driver: state of each context "none"|"open"|"closed"
  now,         \* Date.now()
  calls,       \* the public calls in flight, one record per slot
  closers,     \* the detached closeSession() calls in flight
  exited,      \* process.exit(0) was reached
  started,     \* number of public calls begun so far
  faults,      \* number of driver operations rejected so far
  crashes,     \* number of pages that died so far
  probe        \* a call of matchAction on its own: arguments and result

vars == <<isReady, browser, sessions, pageState, pageUrl, ctxState, now, calls, closers,
          exited, started, faults, crashes, probe>>

(***************************************************************************)
(* The Session Store: a JavaScript Map, iterated in insertion order.       *)
(* An entry is the HotSession object together with its key.                *)
(***************************************************************************)
Keys(store) == {store[i].id : i \in 1..Len(store)}

Has(store, id) == id \in Keys(store)

IndexOf(store, id) == CHOOSE i \in 1..Len(store) : store[i].id = id

\* Map.get: the entry stored under id (only used when Has(store, id)).
Get(store, id) == store[IndexOf(store, id)]

\* Map.set: an existing key keeps its position, a new key is appended.
MapSet(store, e) ==
  IF Has(store, e.id)
    THEN [store EXCEPT ![IndexOf(store, e.id)] = e]
    ELSE Append(store, e)

\* A delete that removes nothing, which C4_ClosesBeforeOpeningIfAccepted
\* must tell from Map.delete.
MapDeleteNothing(store, id) == store

\* Map.delete: removes the entry stored under id, whatever session it holds.
MapDelete(store, id) == SelectSeq(store, LAMBDA e : e.id # id)

\* A session that forgets the site map it was given, which
\* C3_PrepareStoresGivenAlone must tell from the stored one.
HotSessionFirstMap(id, page, context, siteMap, lastActivity, currentUrl) ==
  [id |-> id, page |-> page, context |-> context, siteMap |-> 1,
   lastActivity |-> lastActivity, currentUrl |-> currentUrl]

\* interface HotSession, plus the key it is stored under.
HotSession(id, page, context, siteMap, lastActivity, currentUrl) ==
  [id |-> id, page |-> page, context |-> context, siteMap |-> siteMap,
   lastActivity |-> lastActivity, currentUrl |-> currentUrl]

\* getStatus(): the fields that depend on the store.
getStatus ==
  [ready |-> isReady, sessions |-> Len(sessions), maxSessions |-> MAX_SESSIONS,
   activeSites |-> Keys(sessions)]

(***************************************************************************)
(* Calls in flight.  One record shape serves every public operation:       *)
(*   op      "idle" | "prepare" | "execute" | "interact" | "close" |       *)
(*           "shutdown"                                                    *)
(*   pc      the await the call is suspended at, or "done"                 *)
(*   id      siteId / site_id / session_id                                 *)
(*   sm      the siteMap argument (prepare), session.siteMap (execute)     *)
(*   req     the request (keywords and data) of execute / interact         *)
(*   page, ctx     the HotSession a closeSession / execute holds           *)
(*   npage, nctx   the locals `page` and `context` of prepareSession and   *)
(*                 of interact's session creation (0: not yet created)     *)
(*   ok, msg, obs  the returned value: success flag, message, and the kind *)
(*                 of observation attached ("none" when there is none)     *)
(*   threw         the call ended by throwing instead of returning         *)
(* and history fields that only record what the call did:                  *)
(*   size0, had0   store size, and presence of id, when the call began     *)
(*                 (recorded for prepare)                                  *)
(*   reprep        number of times execute re-ran prepareSession           *)
(*   acted         the call ran an action executor                         *)
(*   overlap       another call stored a session while this prepare or     *)
(*                 shutdown ran                                            *)
(***************************************************************************)
IdleCall ==
  [op |-> "idle", pc |-> "idle", id |-> 0, sm |-> 0, req |-> 0,
   page |-> 0, ctx |-> 0, npage |-> 0, nctx |-> 0,
   ok |-> FALSE, msg |-> <<>>, obs |-> "none", threw |-> FALSE,
   size0 |-> 0, had0 |-> FALSE, reprep |-> 0, acted |-> FALSE,
   overlap |-> FALSE]

NewCall(op, id, sm, req) ==
  [IdleCall EXCEPT !.op = op, !.id = id, !.sm = sm, !.req = req,
                   !.size0 = IF op = "prepare" THEN Len(sessions) ELSE 0,
                   !.had0 = op = "prepare" /\ Has(sessions, id)]

\* A detached closeSession(): the session it holds, and who started it
\* ("evict": evictOldestSession, "sweep": cleanupSessions).
IdleCloser == [pc |-> "idle", id |-> 0, page |-> 0, ctx |-> 0, by |-> ""]

FreeCloserSlots == {k \in CloserSlots : closers[k].pc = "idle"}


(***************************************************************************)
(* Text.  A string is the sequence of its code points, so that             *)
(* String.includes, toLowerCase and join are computed, not assumed.        *)
(***************************************************************************)
\* String.prototype.toLowerCase on the letters the vocabularies use:
\* A-Z, and the Cyrillic capitals U+0400-U+042F.
LowerChar(ch) ==
  IF (ch >= 65 /\ ch <= 90) \/ (ch >= 1040 /\ ch <= 1071) THEN ch + 32
  ELSE IF ch >= 1024 /\ ch <= 1039 THEN ch + 80
  ELSE ch

toLowerCase(s) == [i \in 1..Len(s) |-> LowerChar(s[i])]

\* String.prototype.includes: p occurs in s as a substring.
includes(s, p) ==
  \E i \in 0..(Len(s) - Len(p)) : SubSeq(s, i + 1, i + Len(p)) = p

\* Array.prototype.includes: x is an element of the array.
arrayIncludes(arr, x) == \E i \in 1..Len(arr) : arr[i] = x

\* Array.prototype.join(" ").
RECURSIVE join(_)
join(ws) ==
  IF ws = <<>> THEN <<>>
  ELSE IF Len(ws) = 1 THEN ws[1]
  ELSE ws[1] \o <<32>> \o join(Tail(ws))

\* A search that returns the last match, which C22_OverlapThenObserve must
\* tell from Array.prototype.find.
findLast(hits) == IF hits = {} THEN 0 ELSE CHOOSE i \in hits : \A j \in hits : i >= j

\* Array.prototype.find as an index: the first of the indices that satisfy
\* the callback, or 0 when none does.
find(hits) == IF hits = {} THEN 0 ELSE CHOOSE i \in hits : \A j \in hits : i <= j

(***************************************************************************)
(* PATTERNS, worker.ts:89-98.                                              *)
(***************************************************************************)
\* PATTERNS.booking: резерв, book, запази, наличност, свободн, availability, reserve, нощувк
PATTERNS_booking ==
  << <<1088, 1077, 1079, 1077, 1088, 1074>>,
     <<98, 111, 111, 107>>,
     <<1079, 1072, 1087, 1072, 1079, 1080>>,
     <<1085, 1072, 1083, 1080, 1095, 1085, 1086, 1089, 1090>>,
     <<1089, 1074, 1086, 1073, 1086, 1076, 1085>>,
     <<97, 118, 97, 105, 108, 97, 98, 105, 108, 105, 116, 121>>,
     <<114, 101, 115, 101, 114, 118, 101>>,
     <<1085, 1086, 1097, 1091, 1074, 1082>> >>

\* PATTERNS.check_in: от, check-in, checkin, настаняване, пристигане, arrival, from, start
PATTERNS_check_in ==
  << <<1086, 1090>>,
     <<99, 104, 101, 99, 107, 45, 105, 110>>,
     <<99, 104, 101, 99, 107, 105, 110>>,
     <<1085, 1072, 1089, 1090, 1072, 1085, 1103, 1074, 1072, 1085, 1077>>,
     <<1087, 1088, 1080, 1089, 1090, 1080, 1075, 1072, 1085, 1077>>,
     <<97, 114, 114, 105, 118, 97, 108>>,
     <<102, 114, 111, 109>>,
     <<115, 116, 97, 114, 116>> >>

\* PATTERNS.check_out: до, check-out, checkout, напускане, заминаване, departure, to, end
PATTERNS_check_out ==
  << <<1076, 1086>>,
     <<99, 104, 101, 99, 107, 45, 111, 117, 116>>,
     <<99, 104, 101, 99, 107, 111, 117, 116>>,
     <<1085, 1072, 1087, 1091, 1089, 1082, 1072, 1085, 1077>>,
     <<1079, 1072, 1084, 1080, 1085, 1072, 1074, 1072, 1085, 1077>>,
     <<100, 101, 112, 97, 114, 116, 117, 114, 101>>,
     <<116, 111>>,
     <<101, 110, 100>> >>

\* PATTERNS.guests: човека, души, гости, guests, adults, persons, двама, трима, възрастни, брой
PATTERNS_guests ==
  << <<1095, 1086, 1074, 1077, 1082, 1072>>,
     <<1076, 1091, 1096, 1080>>,
     <<1075, 1086, 1089, 1090, 1080>>,
     <<103, 117, 101, 115, 116, 115>>,
     <<97, 100, 117, 108, 116, 115>>,
     <<112, 101, 114, 115, 111, 110, 115>>,
     <<1076, 1074, 1072, 1084, 1072>>,
     <<1090, 1088, 1080, 1084, 1072>>,
     <<1074, 1098, 1079, 1088, 1072, 1089, 1090, 1085, 1080>>,
     <<1073, 1088, 1086, 1081>> >>

\* PATTERNS.prices: цена, цени, price, струва, колко, cost, rate, тариф
PATTERNS_prices ==
  << <<1094, 1077, 1085, 1072>>,
     <<1094, 1077, 1085, 1080>>,
     <<112, 114, 105, 99, 101>>,
     <<1089, 1090, 1088, 1091, 1074, 1072>>,
     <<1082, 1086, 1083, 1082, 1086>>,
     <<99, 111, 115, 116>>,
     <<114, 97, 116, 101>>,
     <<1090, 1072, 1088, 1080, 1092>> >>

\* PATTERNS.contact: контакт, contact, свържи, обади, телефон, имейл, email
PATTERNS_contact ==
  << <<1082, 1086, 1085, 1090, 1072, 1082, 1090>>,
     <<99, 111, 110, 116, 97, 99, 116>>,
     <<1089, 1074, 1098, 1088, 1078, 1080>>,
     <<1086, 1073, 1072, 1076, 1080>>,
     <<1090, 1077, 1083, 1077, 1092, 1086, 1085>>,
     <<1080, 1084, 1077, 1081, 1083>>,
     <<101, 109, 97, 105, 108>> >>

\* PATTERNS.search: търси, search, find, провери, check, покажи, show
PATTERNS_search ==
  << <<1090, 1098, 1088, 1089, 1080>>,
     <<115, 101, 97, 114, 99, 104>>,
     <<102, 105, 110, 100>>,
     <<1087, 1088, 1086, 1074, 1077, 1088, 1080>>,
     <<99, 104, 101, 99, 107>>,
     <<1087, 1086, 1082, 1072, 1078, 1080>>,
     <<115, 104, 111, 119>> >>

\* PATTERNS.rooms: стая, стаи, room, rooms, апартамент, suite, настаняване
PATTERNS_rooms ==
  << <<1089, 1090, 1072, 1103>>,
     <<1089, 1090, 1072, 1080>>,
     <<114, 111, 111, 109>>,
     <<114, 111, 111, 109, 115>>,
     <<1072, 1087, 1072, 1088, 1090, 1072, 1084, 1077, 1085, 1090>>,
     <<115, 117, 105, 116, 101>>,
     <<1085, 1072, 1089, 1090, 1072, 1085, 1103, 1074, 1072, 1085, 1077>> >>

\* PATTERNS.x.some(p => s.includes(p))
somePatternIn(patterns, s) ==
  \E i \in 1..Len(patterns) : includes(s, patterns[i])

\* PATTERNS.x.some(k => arr.includes(k))
somePatternAmong(patterns, arr) ==
  \E i \in 1..Len(patterns) : arrayIncludes(arr, patterns[i])

(***************************************************************************)
(* matchAction(keywords, siteMap, data), worker.ts:398-493.                *)
(* data is [present, check_in, check_out, guests]; an absent or empty      *)
(* string is <<>>, an absent or zero guest count is 0 (both are falsy).    *)
(***************************************************************************)
NoData == [present |-> FALSE, check_in |-> <<>>, check_out |-> <<>>, guests |-> 0]

Descriptor(type, form, selector, buttonText) ==
  [type |-> type, form |-> form, selector |-> selector, buttonText |-> buttonText]

\* A descriptor that sends the button to the navigate executor.
NavigateOn(b) == Descriptor("navigate", 0, b.selector, b.text)

ClickOn(b) == Descriptor("click", 0, b.selector, b.text)

\* worker.ts:418-424
isDateForm(f) ==
  \E i \in 1..Len(f.fields) :
     \/ f.fields[i].type = "date"
     \/ somePatternAmong(PATTERNS_check_in, f.fields[i].keywords)
     \/ somePatternAmong(PATTERNS_check_out, f.fields[i].keywords)

\* worker.ts:431-434
isBookingButton(b) ==
  b.action_type = "booking" \/ somePatternIn(PATTERNS_booking, toLowerCase(b.text))

\* worker.ts:450-453
isContactButton(b) ==
  b.action_type = "contact" \/ somePatternIn(PATTERNS_contact, toLowerCase(b.text))

\* worker.ts:462-464
isRoomsButton(b) == somePatternIn(PATTERNS_rooms, toLowerCase(b.text))

\* worker.ts:472-475
isSearchButton(b) ==
  b.action_type = "submit" \/ somePatternIn(PATTERNS_search, toLowerCase(b.text))

\* worker.ts:484-485
overlaps(b, keywords) ==
  \E i \in 1..Len(keywords) :
     arrayIncludes([j \in 1..Len(b.keywords) |-> toLowerCase(b.keywords[j])],
                   toLowerCase(keywords[i]))

\* Array.prototype.find over siteMap.forms / siteMap.buttons with each of
\* the callbacks of matchAction.
dateForm(siteMap) == find({i \in 1..Len(siteMap.forms) : isDateForm(siteMap.forms[i])})

bookingButton(siteMap) ==
  find({i \in 1..Len(siteMap.buttons) : isBookingButton(siteMap.buttons[i])})

contactButton(siteMap) ==
  find({i \in 1..Len(siteMap.buttons) : isContactButton(siteMap.buttons[i])})

roomsButton(siteMap) ==
  find({i \in 1..Len(siteMap.buttons) : isRoomsButton(siteMap.buttons[i])})

searchButton(siteMap) ==
  find({i \in 1..Len(siteMap.buttons) : isSearchButton(siteMap.buttons[i])})

overlapButton(siteMap, keywords) ==
  find({i \in 1..Len(siteMap.buttons) : overlaps(siteMap.buttons[i], keywords)})

\* A booking rule that prefers the button to the form, which
\* C18_BookingPrefersForm must tell from rule 1.
ruleBookingButtonFirst(joined, siteMap, data) ==
  IF somePatternIn(PATTERNS_booking, joined)
     \/ (data.present /\ (data.check_in # <<>> \/ data.check_out # <<>>))
    THEN IF bookingButton(siteMap) # 0
           THEN ClickOn(siteMap.buttons[bookingButton(siteMap)])
         ELSE IF dateForm(siteMap) # 0
           THEN Descriptor("fill_form", dateForm(siteMap), "", <<>>)
         ELSE Descriptor("", 0, "", <<>>)
    ELSE Descriptor("", 0, "", <<>>)

\* Rule 1, worker.ts:412-439: the descriptor, or type "" when it yields none.
ruleBooking(joined, siteMap, data) ==
  IF somePatternIn(PATTERNS_booking, joined)
     \/ (data.present /\ (data.check_in # <<>> \/ data.check_out # <<>>))
    THEN IF dateForm(siteMap) # 0
           THEN Descriptor("fill_form", dateForm(siteMap), "", <<>>)
         ELSE IF bookingButton(siteMap) # 0
           THEN ClickOn(siteMap.buttons[bookingButton(siteMap)])
         ELSE Descriptor("", 0, "", <<>>)
    ELSE Descriptor("", 0, "", <<>>)

\* A prices rule that does not look at the price list, which
\* C19_PricesNeedEntries must tell from rule 2.
rulePricesAlways(joined, siteMap) ==
  IF somePatternIn(PATTERNS_prices, joined)
    THEN Descriptor("return_prices", 0, "", <<>>)
    ELSE Descriptor("", 0, "", <<>>)

\* Rule 2, worker.ts:441-446.
rulePrices(joined, siteMap) ==
  IF somePatternIn(PATTERNS_prices, joined) /\ Len(siteMap.prices) > 0
    THEN Descriptor("return_prices", 0, "", <<>>)
    ELSE Descriptor("", 0, "", <<>>)

\* A contact rule without its terminal fallback, which
\* C20_ContactIsTerminal must tell from rule 3.
ruleContactFallsThrough(joined, siteMap) ==
  IF somePatternIn(PATTERNS_contact, joined) /\ contactButton(siteMap) # 0
    THEN ClickOn(siteMap.buttons[contactButton(siteMap)])
    ELSE Descriptor("", 0, "", <<>>)

\* Rule 3, worker.ts:448-458.
ruleContact(joined, siteMap) ==
  IF somePatternIn(PATTERNS_contact, joined)
    THEN IF contactButton(siteMap) # 0
           THEN ClickOn(siteMap.buttons[contactButton(siteMap)])
           ELSE Descriptor("return_contact", 0, "", <<>>)
    ELSE Descriptor("", 0, "", <<>>)

\* A rooms rule that ends the cascade when it finds no button, which
\* C21_RoomsFallThrough must tell from rule 4.
ruleRoomsTerminal(joined, siteMap) ==
  IF somePatternIn(PATTERNS_rooms, joined)
    THEN IF roomsButton(siteMap) # 0
           THEN ClickOn(siteMap.buttons[roomsButton(siteMap)])
           ELSE Descriptor("observe", 0, "", <<>>)
    ELSE Descriptor("", 0, "", <<>>)

\* Rule 4, worker.ts:460-468.
ruleRooms(joined, siteMap) ==
  IF somePatternIn(PATTERNS_rooms, joined)
     /\ roomsButton(siteMap) # 0
    THEN ClickOn(siteMap.buttons[roomsButton(siteMap)])
    ELSE Descriptor("", 0, "", <<>>)

\* Rule 5, worker.ts:470-479.
ruleSearch(joined, siteMap) ==
  IF somePatternIn(PATTERNS_search, joined)
     /\ searchButton(siteMap) # 0
    THEN ClickOn(siteMap.buttons[searchButton(siteMap)])
    ELSE Descriptor("", 0, "", <<>>)

\* Rule 6, worker.ts:481-489.
ruleOverlap(keywords, siteMap) ==
  IF overlapButton(siteMap, keywords) # 0
    THEN ClickOn(siteMap.buttons[overlapButton(siteMap, keywords)])
    ELSE Descriptor("", 0, "", <<>>)

\* A cascade that asks the prices rule first, which C17_FirstRuleWins must
\* tell from the order of matchAction.
matchActionPricesFirst(keywords, siteMap, data) ==
  LET joined == toLowerCase(join(keywords)) IN
  IF rulePrices(joined, siteMap).type # "" THEN rulePrices(joined, siteMap)
  ELSE IF ruleBooking(joined, siteMap, data).type # "" THEN ruleBooking(joined, siteMap, data)
  ELSE IF ruleContact(joined, siteMap).type # "" THEN ruleContact(joined, siteMap)
  ELSE IF ruleRooms(joined, siteMap).type # "" THEN ruleRooms(joined, siteMap)
  ELSE IF ruleSearch(joined, siteMap).type # "" THEN ruleSearch(joined, siteMap)
  ELSE IF ruleOverlap(keywords, siteMap).type # "" THEN ruleOverlap(keywords, siteMap)
  ELSE Descriptor("observe", 0, "", <<>>)

matchAction(keywords, siteMap, data) ==
  LET joined == toLowerCase(join(keywords)) IN
  IF ruleBooking(joined, siteMap, data).type # "" THEN ruleBooking(joined, siteMap, data)
  ELSE IF rulePrices(joined, siteMap).type # "" THEN rulePrices(joined, siteMap)
  ELSE IF ruleContact(joined, siteMap).type # "" THEN ruleContact(joined, siteMap)
  ELSE IF ruleRooms(joined, siteMap).type # "" THEN ruleRooms(joined, siteMap)
  ELSE IF ruleSearch(joined, siteMap).type # "" THEN ruleSearch(joined, siteMap)
  ELSE IF ruleOverlap(keywords, siteMap).type # "" THEN ruleOverlap(keywords, siteMap)
  ELSE Descriptor("observe", 0, "", <<>>)

(***************************************************************************)
(* The site maps and requests the callers send.                            *)
(***************************************************************************)
Button(text, selector, keywords, action_type) ==
  [text |-> text, selector |-> selector, keywords |-> keywords,
   action_type |-> action_type]

Field(name, selector, type, keywords) ==
  [name |-> name, selector |-> selector, type |-> type, keywords |-> keywords]

BtnMenu == Button(<<77, 101, 110, 117>>, "#menu", <<<<109, 101, 110, 117>>>>, "navigation")
BtnBook == Button(<<66, 111, 111, 107, 32, 110, 111, 119>>, "#book", <<<<98, 111, 111, 107>>, <<110, 111, 119>>>>, "booking")
BtnContact == Button(<<67, 111, 110, 116, 97, 99, 116>>, "", <<<<99, 111, 110, 116, 97, 99, 116>>>>, "contact")

\* A booking form: check-in date, guest count, and a free-text note.
BookingForm ==
  [selector |-> "#booking",
   fields |-> << Field(<<99, 104, 101, 99, 107, 95, 105, 110>>, "#in", "date", <<<<99, 104, 101, 99, 107, 45, 105, 110>>>>),
                 Field(<<103, 117, 101, 115, 116, 115>>, "#guests", "select", <<<<103, 117, 101, 115, 116, 115>>>>),
                 Field(<<110, 111, 116, 101>>, "#note", "text", <<<<110, 111, 116, 101>>>>) >>,
   submit_button |-> "#go"]

\* Site map 1: a hotel site with a booking form, buttons and a price.
\* Site map 2: a site with buttons only.
SiteMapOf(ref) ==
  CASE ref = 1 ->
         [url |-> "hotel.example", buttons |-> <<BtnMenu, BtnBook, BtnContact>>,
          forms |-> <<BookingForm>>,
          prices |-> << [text |-> <<49, 50, 48, 32, 108, 118>>, context |-> <<83, 116, 97, 110, 100, 97, 114, 100>>] >>]
    [] ref = 2 ->
         [url |-> "https://inn.example", buttons |-> <<BtnBook, BtnMenu>>,
          forms |-> <<>>, prices |-> <<>>]
    [] OTHER ->
         [url |-> "", buttons |-> <<>>, forms |-> <<>>, prices |-> <<>>]

NumSiteMaps == 2
SiteMapRefs == 1..NumSiteMaps

\* Requests of execute: keywords and data.
\*  1: "book" without data      2: "book" with check-in and guests
\*  3: "price"                  4: "contact"
NumRequests == 4
Requests == 1..NumRequests

RequestOf(r) ==
  CASE r = 1 -> [keywords |-> <<<<98, 111, 111, 107>>>>, data |-> NoData]
    [] r = 2 -> [keywords |-> <<<<98, 111, 111, 107>>>>,
                 data |-> [present |-> TRUE, check_in |-> <<50, 48, 50, 54, 45, 48, 49, 45, 49, 48>>,
                           check_out |-> <<>>, guests |-> 2]]
    [] r = 3 -> [keywords |-> <<<<112, 114, 105, 99, 101>>>>, data |-> NoData]
    [] OTHER -> [keywords |-> <<<<99, 111, 110, 116, 97, 99, 116>>>>, data |-> NoData]

(***************************************************************************)
(* matchAction on its own: the keyword lists, structured data and site     *)
(* maps it is called with.                                                 *)
(***************************************************************************)
\* Words of requests:
\*  1 резервация  2 стая  3 book  4 price  5 contact  6 search  7 menu
\*  8 hello  9 Цена
NumWords == 9
\* Keywords of one request.
MaxKeywords == 2

WordOf(i) ==
  CASE i = 1 -> <<1088, 1077, 1079, 1077, 1088, 1074, 1072, 1094, 1080, 1103>>
    [] i = 2 -> <<1089, 1090, 1072, 1103>>
    [] i = 3 -> <<98, 111, 111, 107>>
    [] i = 4 -> <<112, 114, 105, 99, 101>>
    [] i = 5 -> <<99, 111, 110, 116, 97, 99, 116>>
    [] i = 6 -> <<115, 101, 97, 114, 99, 104>>
    [] i = 7 -> <<109, 101, 110, 117>>
    [] i = 8 -> <<104, 101, 108, 108, 111>>
    [] i = 9 -> <<1062, 1077, 1085, 1072>>
    [] OTHER -> <<114, 111, 111, 109, 115>>

\* The keyword list of a set of words, in the order of their numbers.
RECURSIVE KeywordsOf(_)
KeywordsOf(S) ==
  IF S = {} THEN <<>>
  ELSE LET w == CHOOSE i \in S : \A j \in S : i <= j
       IN <<WordOf(w)>> \o KeywordsOf(S \ {w})

\* Structured data: 1 none, 2 check-in and guests, 3 guests only,
\* otherwise check-out only.
NumMatchData == 4

MatchDataOf(d) ==
  CASE d = 1 -> NoData
    [] d = 2 -> RequestOf(2).data
    [] d = 3 -> [present |-> TRUE, check_in |-> <<>>, check_out |-> <<>>, guests |-> 2]
    [] OTHER -> [present |-> TRUE, check_in |-> <<>>,
                 check_out |-> <<50, 48, 50, 54, 45, 48, 49, 45, 49, 50>>, guests |-> 0]

BtnRooms == Button(<<82, 111, 111, 109, 115>>, "#rooms", <<<<114, 111, 111, 109, 115>>>>, "navigation")
BtnSend == Button(<<83, 101, 110, 100>>, "#send", <<<<115, 101, 110, 100>>>>, "submit")
BtnCall == Button(<<67, 97, 108, 108, 32, 117, 115>>, "#call", <<<<99, 97, 108, 108>>>>, "contact")
BtnReserve == Button(<<82, 101, 115, 101, 114, 118, 101>>, "#reserve", <<>>, "other")
BtnSearch == Button(<<83, 101, 97, 114, 99, 104, 32, 114, 111, 111, 109, 115>>, "#search", <<<<115, 101, 97, 114, 99, 104>>, <<114, 111, 111, 109, 115>>>>, "other")
BtnEmail == Button(<<69, 109, 97, 105, 108, 32, 117, 115>>, "#mail", <<<<109, 101, 110, 117>>>>, "other")

\* A form without date fields, and a form whose text field is declared with
\* a check-in keyword.
NoteForm ==
  [selector |-> "#noteform",
   fields |-> << Field(<<110, 111, 116, 101>>, "#note", "text", <<<<110, 111, 116, 101>>>>) >>,
   submit_button |-> ""]

ArrivalForm ==
  [selector |-> "#arrivalform",
   fields |-> << Field(<<97, 114, 114, 105, 118, 97, 108>>, "#arr", "text",
                       <<<<97, 114, 114, 105, 118, 97, 108>>>>) >>,
   submit_button |-> "#ok"]

\* Site maps: 1 and 2 as above; 3 three forms (the second and third with
\* dates), six buttons, a price; 4 two booking buttons and a button that
\* matches the contact vocabulary, a form without dates, no price; 5 a
\* submit button and a menu button; otherwise the empty site map.
NumMatchSiteMaps == 6

MatchSiteMapOf(m) ==
  CASE m = 3 ->
         [url |-> "guesthouse.example",
          buttons |-> <<BtnRooms, BtnSend, BtnCall, BtnContact, BtnBook, BtnSearch>>,
          forms |-> <<NoteForm, ArrivalForm, BookingForm>>,
          prices |-> << [text |-> <<49, 50, 48, 32, 108, 118>>, context |-> <<>>] >>]
    [] m = 4 ->
         [url |-> "lodge.example",
          buttons |-> <<BtnMenu, BtnReserve, BtnBook, BtnEmail>>,
          forms |-> <<NoteForm>>, prices |-> <<>>]
    [] m = 5 ->
         [url |-> "cabin.example", buttons |-> <<BtnSend, BtnMenu>>,
          forms |-> <<>>, prices |-> <<>>]
    [] m = 1 \/ m = 2 -> SiteMapOf(m)
    [] OTHER -> [url |-> "", buttons |-> <<>>, forms |-> <<>>, prices |-> <<>>]

ProbeCalls ==
  { [words |-> S, siteMap |-> m, data |-> d] :
      S \in {T \in SUBSET (1..NumWords) : Cardinality(T) <= MaxKeywords},
      m \in 1..NumMatchSiteMaps, d \in 1..NumMatchData }

NoAction == Descriptor("", 0, "", <<>>)

\* No call of matchAction on its own.
NoProbe ==
  [words |-> {}, siteMap |-> 0, data |-> 0, returned |-> FALSE, action |-> NoAction]

(***************************************************************************)
(* The legacy site map, worker.ts:336-350, built from observeDOM           *)
(* (:723-763) and detectButtonType (:765-771).                             *)
(***************************************************************************)
\* String.prototype.split(/\s+/) on a text whose only white space is " ".
RECURSIVE splitFrom(_, _, _)
splitFrom(s, i, word) ==
  IF i > Len(s) THEN <<word>>
  ELSE IF s[i] = 32
    THEN IF i > 1 /\ s[i - 1] = 32
           THEN splitFrom(s, i + 1, word)
           ELSE <<word>> \o splitFrom(s, i + 1, <<>>)
    ELSE splitFrom(s, i + 1, Append(word, s[i]))

split(s) == splitFrom(s, 1, <<>>)

DetectBooking == << <<1088, 1077, 1079, 1077, 1088, 1074>>, <<98, 111, 111, 107>>, <<1079, 1072, 1087, 1072, 1079, 1080>>, <<114, 101, 115, 101, 114, 118, 101>> >>
DetectContact == << <<1082, 1086, 1085, 1090, 1072, 1082, 1090>>, <<99, 111, 110, 116, 97, 99, 116>>, <<1089, 1074, 1098, 1088, 1078, 1080>> >>
DetectSubmit == << <<1090, 1098, 1088, 1089, 1080>>, <<115, 101, 97, 114, 99, 104>>, <<1087, 1088, 1086, 1074, 1077, 1088, 1080>>, <<99, 104, 101, 99, 107>>, <<115, 117, 98, 109, 105, 116>>, <<1080, 1079, 1087, 1088, 1072, 1090, 1080>> >>

detectButtonType(text) ==
  IF somePatternIn(DetectBooking, toLowerCase(text)) THEN "booking"
  ELSE IF somePatternIn(DetectContact, toLowerCase(text)) THEN "contact"
  ELSE IF somePatternIn(DetectSubmit, toLowerCase(text)) THEN "submit"
  ELSE "other"

\* What observeDOM finds on the page of the legacy caller's site.
ObservedDOM ==
  [buttons |-> << [text |-> <<66, 111, 111, 107, 32, 110, 111, 119>>, selector |-> "#book"],
                  [text |-> <<83, 101, 97, 114, 99, 104, 32, 114, 111, 111, 109, 115>>, selector |-> ".btn"] >>,
   prices |-> << <<49, 50, 48, 32, 108, 118>> >>]

\* observeDOM's catch: { buttons: [], prices: [] }.
EmptyDOM == [buttons |-> <<>>, prices |-> <<>>]

legacySiteMap(site_url, observation) ==
  [url |-> site_url,
   buttons |-> [i \in 1..Len(observation.buttons) |->
                  Button(observation.buttons[i].text,
                         observation.buttons[i].selector,
                         split(toLowerCase(observation.buttons[i].text)),
                         detectButtonType(observation.buttons[i].text))],
   forms |-> <<>>,
   prices |-> [i \in 1..Len(observation.prices) |->
                 [text |-> observation.prices[i], context |-> <<>>]]]

\* References to site maps held by sessions: 1..NumSiteMaps are the maps
\* the crawler supplies, LegacyRef and LegacyEmptyRef the maps interact
\* derives (observation succeeded / observeDOM's evaluate failed).
LegacyRef == NumSiteMaps + 1
LegacyEmptyRef == NumSiteMaps + 2

siteMapOf(ref) ==
  IF ref = LegacyRef THEN legacySiteMap("legacy.example", ObservedDOM)
  ELSE IF ref = LegacyEmptyRef THEN legacySiteMap("legacy.example", EmptyDOM)
  ELSE SiteMapOf(ref)

(***************************************************************************)
(* The action executors, worker.ts:499-720.  An oracle o says how the      *)
(* page answers the driver operations of one executor run:                 *)
(*   o.click[i], o.wait[i]  page.click of strategy i / the wait after it   *)
(*   o.fill      the pairs <<field, selector strategy>> whose page.$ finds *)
(*               an element and whose fill/selectOption succeeds           *)
(*   o.submit    click on the submit control and the wait after it         *)
(*   o.eval      page.evaluate succeeds (quickObserve, getContactInfo)     *)
(*   o.text      the text of the page, a page text of PageTextOf           *)
(*   o.nav       page.goto and the wait after it succeed                   *)
(*   o.moves     activating a control takes the page to another location   *)
(***************************************************************************)
\* "Попълних: ", worker.ts:574, the prefix of the summary.
MsgFilled == <<1055, 1086, 1087, 1098, 1083, 1085, 1080, 1093, 58, 32>>
\* "Не успях да попълня формата", worker.ts:575.
MsgFillFailed == <<1053, 1077, 32, 1091, 1089, 1087, 1103, 1093, 32, 1076, 1072, 32, 1087, 1086, 1087, 1098, 1083, 1085, 1103, 32, 1092, 1086, 1088, 1084, 1072, 1090, 1072>>
\* "Формата няма полета", worker.ts:507.
MsgNoFields == <<1060, 1086, 1088, 1084, 1072, 1090, 1072, 32, 1085, 1103, 1084, 1072, 32, 1087, 1086, 1083, 1077, 1090, 1072>>
\* "Кликнах", worker.ts:600; the text of the button follows in quotes when
\* there is one.
MsgClicked == <<1050, 1083, 1080, 1082, 1085, 1072, 1093>>
\* "Не успях да кликна", worker.ts:606.
MsgClickFailed == <<1053, 1077, 32, 1091, 1089, 1087, 1103, 1093, 32, 1076, 1072, 32, 1082, 1083, 1080, 1082, 1085, 1072>>
\* "Цени: ", worker.ts:619, the prefix.
MsgPrices == <<1062, 1077, 1085, 1080, 58, 32>>
\* "Не намерих цени на сайта", worker.ts:613.
MsgNoPrices == <<1053, 1077, 32, 1085, 1072, 1084, 1077, 1088, 1080, 1093, 32, 1094, 1077, 1085, 1080, 32, 1085, 1072, 32, 1089, 1072, 1081, 1090, 1072>>
\* "Телефон: " and "Email: ", worker.ts:650-651.
MsgPhone == <<1058, 1077, 1083, 1077, 1092, 1086, 1085, 58, 32>>
MsgEmail == <<69, 109, 97, 105, 108, 58, 32>>
\* "Не намерих контактна информация на тази страница", worker.ts:655.
MsgNoContact == <<1053, 1077, 32, 1085, 1072, 1084, 1077, 1088, 1080, 1093, 32, 1082, 1086, 1085, 1090, 1072, 1082, 1090, 1085, 1072, 32, 1080, 1085, 1092, 1086, 1088, 1084, 1072, 1094, 1080, 1103, 32, 1085, 1072, 32, 1090, 1072, 1079, 1080, 32, 1089, 1090, 1088, 1072, 1085, 1080, 1094, 1072>>
\* "Не успях да извлека контактите", worker.ts:658.
MsgContactError == <<1053, 1077, 32, 1091, 1089, 1087, 1103, 1093, 32, 1076, 1072, 32, 1080, 1079, 1074, 1083, 1077, 1082, 1072, 32, 1082, 1086, 1085, 1090, 1072, 1082, 1090, 1080, 1090, 1077>>
\* "Отворих ", worker.ts:670, the fixed part.
MsgNavigated == <<1054, 1090, 1074, 1086, 1088, 1080, 1093, 32>>
\* "Не успях да отворя страницата", worker.ts:672.
MsgNavigateFailed == <<1053, 1077, 32, 1091, 1089, 1087, 1103, 1093, 32, 1076, 1072, 32, 1086, 1090, 1074, 1086, 1088, 1103, 32, 1089, 1090, 1088, 1072, 1085, 1080, 1094, 1072, 1090, 1072>>
\* "Страница: ", worker.ts:682, the fixed part.
MsgPage == <<1057, 1090, 1088, 1072, 1085, 1080, 1094, 1072, 58, 32>>

\* quickObserve, worker.ts:695-720: the snapshot, or the catch's fallback.
quickObserve(o) == IF o.eval THEN "snapshot" ELSE "fallback"

\* A resolution by vocabulary alone, whether or not the datum is there,
\* which C25_OnlyMatchedFieldsWritten must tell from the loop's.
resolveValueByVocabulary(field, data) ==
  LET fieldKeywords == [j \in 1..Len(field.keywords) |-> toLowerCase(field.keywords[j])]
  IN IF ~data.present THEN ""
     ELSE IF somePatternAmong(PATTERNS_check_in, fieldKeywords) THEN "check_in"
     ELSE IF somePatternAmong(PATTERNS_check_out, fieldKeywords) THEN "check_out"
     ELSE IF somePatternAmong(PATTERNS_guests, fieldKeywords) THEN "guests"
     ELSE ""

\* The value fillForm resolves for a field (worker.ts:514-522): which datum
\* it takes ("" when none), or a TypeError when data is undefined and a
\* vocabulary matches the field.
resolveValue(field, data) ==
  LET fieldKeywords == [j \in 1..Len(field.keywords) |-> toLowerCase(field.keywords[j])]
      isIn == somePatternAmong(PATTERNS_check_in, fieldKeywords)
      isOut == somePatternAmong(PATTERNS_check_out, fieldKeywords)
      isGuests == somePatternAmong(PATTERNS_guests, fieldKeywords)
  IN IF (isIn \/ isOut \/ isGuests) /\ ~data.present THEN "TypeError"
     ELSE IF isIn /\ data.check_in # <<>> THEN "check_in"
     ELSE IF isOut /\ data.check_out # <<>> THEN "check_out"
     ELSE IF isGuests /\ data.guests # 0 THEN "guests"
     ELSE ""

\* The selector strategies of a field (:527-531): .filter(Boolean) drops an
\* empty declared selector; the name and id selectors are never empty.
fieldStrategies(field) == IF field.selector = "" THEN {2, 3} ELSE {1, 2, 3}

\* A loop that keeps the last selector that works, which
\* C29_FirstSelectorWins must tell from the loop that stops at the first.
filledByLast(o, i, field) ==
  IF \E s \in fieldStrategies(field) : <<i, s>> \in o.fill
    THEN CHOOSE s \in fieldStrategies(field) :
           /\ <<i, s>> \in o.fill
           /\ \A t \in fieldStrategies(field) : <<i, t>> \in o.fill => s >= t
    ELSE 0

\* The strategy that fills field i (:533-547), or 0 when all fail.
filledBy(o, i, field) ==
  IF \E s \in fieldStrategies(field) : <<i, s>> \in o.fill
    THEN CHOOSE s \in fieldStrategies(field) :
           /\ <<i, s>> \in o.fill
           /\ \A t \in fieldStrategies(field) : <<i, t>> \in o.fill => s <= t
    ELSE 0

\* The loop over form.fields (:510-557): the fields filled so far, in
\* order, as [field, value, strategy]; threw when a TypeError escaped.
RECURSIVE fillFields(_, _, _, _, _)
fillFields(o, form, data, i, actions) ==
  IF i > Len(form.fields) THEN [threw |-> FALSE, actions |-> actions]
  ELSE LET value == resolveValue(form.fields[i], data)
           s == filledBy(o, i, form.fields[i])
       IN IF value = "TypeError" THEN [threw |-> TRUE, actions |-> actions]
          ELSE IF value # "" /\ s # 0
            THEN fillFields(o, form, data, i + 1,
                   Append(actions, [field |-> i, value |-> value, strategy |-> s]))
            ELSE fillFields(o, form, data, i + 1, actions)

\* Array.prototype.join(sep).
RECURSIVE joinWith(_, _)
joinWith(parts, sep) ==
  IF parts = <<>> THEN <<>>
  ELSE IF Len(parts) = 1 THEN parts[1]
  ELSE parts[1] \o sep \o joinWith(Tail(parts), sep)

\* String(n) of a count.
RECURSIVE String(_)
String(n) == IF n < 10 THEN <<48 + n>> ELSE String(n \div 10) \o <<48 + (n % 10)>>

\* field.name.replace(/[-_]/g, " ") (:551).
fieldLabel(name) == [i \in 1..Len(name) |-> IF name[i] \in {45, 95} THEN 32 ELSE name[i]]

\* The entry `${fieldLabel}: ${value}` of a filled field (:550-552).
filledEntry(form, data, a) ==
  fieldLabel(form.fields[a.field].name) \o <<58, 32>>
    \o (CASE a.value = "check_in" -> data.check_in
          [] a.value = "check_out" -> data.check_out
          [] OTHER -> String(data.guests))

\* "Търсене", the entry of the submit (:564).
MsgSubmitted == <<1058, 1098, 1088, 1089, 1077, 1085, 1077>>

\* The array `actions` at the return of fillForm (:573).
summary(form, data, actions, submitted) ==
  [k \in 1..Len(actions) |-> filledEntry(form, data, actions[k])]
    \o (IF submitted THEN <<MsgSubmitted>> ELSE <<>>)

\* A fillForm that activates the submit control whether or not a field was
\* filled, which C30_SubmitAfterFill must tell from fillForm.
fillFormAlwaysSubmits(o, form, data) ==
  LET r == fillFields(o, form, data, 1, <<>>)
      tried == form.submit_button # ""
      listed == summary(form, data, r.actions, ~r.threw /\ tried /\ o.submit)
  IN [threw |-> r.threw,
      actions |-> r.actions,
      submitTried |-> ~r.threw /\ tried,
      submitted |-> ~r.threw /\ tried /\ o.submit,
      message |-> IF Len(listed) > 0 THEN MsgFilled \o joinWith(listed, <<44, 32>>)
                  ELSE MsgFillFailed,
      observation |-> quickObserve(o)]

\* fillForm, worker.ts:499-578.
fillForm(o, form, data) ==
  LET r == fillFields(o, form, data, 1, <<>>)
      tried == form.submit_button # "" /\ Len(r.actions) > 0
      listed == summary(form, data, r.actions, ~r.threw /\ tried /\ o.submit)
  IN [threw |-> r.threw,
      actions |-> r.actions,
      submitTried |-> ~r.threw /\ tried,
      submitted |-> ~r.threw /\ tried /\ o.submit,
      message |-> IF Len(listed) > 0 THEN MsgFilled \o joinWith(listed, <<44, 32>>)
                  ELSE MsgFillFailed,
      observation |-> quickObserve(o)]

\* clickButton, worker.ts:580-610.  Strategies 2-4 are
\* `buttonText && await page.click(...)`: without a text they do nothing
\* and do not throw.
strategyPasses(o, i, buttonText) ==
  /\ IF i = 1 THEN o.click[1] ELSE (buttonText = <<>> \/ o.click[i])
  /\ o.wait[i]

clickButton(o, selector, buttonText) ==
  LET passing == {i \in 1..4 : strategyPasses(o, i, buttonText)}
      first == IF passing = {} THEN 0
               ELSE CHOOSE i \in passing : \A j \in passing : i <= j
  IN [threw |-> FALSE,
      strategy |-> first,
      activated |-> first # 0 /\ (first = 1 \/ buttonText # <<>>),
      message |-> IF first = 0 THEN MsgClickFailed
                  ELSE IF buttonText # <<>> THEN MsgClicked \o <<32, 34>> \o buttonText \o <<34>>
                  ELSE MsgClicked,
      observation |-> IF first # 0 THEN quickObserve(o) ELSE "none"]

\* Array.prototype.slice(0, n).
slice(arr, n) == SubSeq(arr, 1, IF Len(arr) < n THEN Len(arr) ELSE n)

\* The text of one price entry (:615-617): "context: text", or the text
\* alone when the context is empty.
formatPrice(p) == IF p.context # <<>> THEN p.context \o <<58, 32>> \o p.text ELSE p.text

\* formatPrices without the slice, which C23_PricesFormatted must tell from
\* formatPrices.
formatPricesAll(prices) ==
  IF Len(prices) = 0 THEN MsgNoPrices
  ELSE MsgPrices \o joinWith([i \in 1..Len(prices) |-> formatPrice(prices[i])], <<59, 32>>)

\* formatPrices, worker.ts:612-620.
formatPrices(prices) ==
  IF Len(prices) = 0 THEN MsgNoPrices
  ELSE MsgPrices \o joinWith([i \in 1..Len(slice(prices, 5)) |->
                                formatPrice(slice(prices, 5)[i])], <<59, 32>>)

(***************************************************************************)
(* The regular expressions of getContactInfo (worker.ts:628-642), matched  *)
(* the way the engine matches them: leftmost start, alternatives in order, *)
(* greedy quantifiers that give back one character at a time.  A pattern   *)
(* is a sequence of pieces: a literal with alternatives, or a character    *)
(* class repeated min to max times (max 0: no upper limit).                *)
(***************************************************************************)
Digits == 48..57
\* \s and "-".
Separators ==
  {9, 10, 11, 12, 13, 32, 45, 160, 5760, 8232, 8233, 8239, 8287, 12288, 65279}
    \cup (8192..8202)
\* \w
WordChars == Digits \cup (65..90) \cup (97..122) \cup {95}
\* [\w.-]
AddressChars == WordChars \cup {45, 46}

Lit(alts) == [kind |-> "lit", alts |-> alts]
Rep(class, min, max) == [kind |-> "rep", class |-> class, min |-> min, max |-> max]

\* /(\+359|0)[\s-]?\d{2,3}[\s-]?\d{3}[\s-]?\d{3}/
PhoneSpaced ==
  << Lit(<< <<43, 51, 53, 57>>, <<48>> >>), Rep(Separators, 0, 1), Rep(Digits, 2, 3),
     Rep(Separators, 0, 1), Rep(Digits, 3, 3), Rep(Separators, 0, 1), Rep(Digits, 3, 3) >>
\* /(\+359|0)\d{9}/
PhonePlain == << Lit(<< <<43, 51, 53, 57>>, <<48>> >>), Rep(Digits, 9, 9) >>
\* /[\w.-]+@[\w.-]+\.\w+/
EmailPattern ==
  << Rep(AddressChars, 1, 0), Lit(<< <<64>> >>), Rep(AddressChars, 1, 0),
     Lit(<< <<46>> >>), Rep(WordChars, 1, 0) >>

\* The literal occurs in the text at position pos.
startsWith(text, pos, lit) ==
  pos + Len(lit) - 1 <= Len(text) /\ SubSeq(text, pos, pos + Len(lit) - 1) = lit

\* The most characters of the class a repetition can take at position pos.
run(text, pos, piece) ==
  LET limit == IF piece.max = 0 \/ piece.max > Len(text) - pos + 1
                 THEN Len(text) - pos + 1 ELSE piece.max
      fits == {n \in 0..limit : \A j \in pos..(pos + n - 1) : text[j] \in piece.class}
  IN CHOOSE n \in fits : \A m \in fits : m <= n

\* The position after the match of pieces k.. that starts at pos, or 0 when
\* there is none.
RECURSIVE matchHere(_, _, _, _)
matchHere(text, pos, pieces, k) ==
  IF k > Len(pieces) THEN pos
  ELSE IF pieces[k].kind = "lit"
    THEN LET ok == {a \in 1..Len(pieces[k].alts) :
                      /\ startsWith(text, pos, pieces[k].alts[a])
                      /\ matchHere(text, pos + Len(pieces[k].alts[a]), pieces, k + 1) # 0}
         IN IF ok = {} THEN 0
            ELSE matchHere(text, pos + Len(pieces[k].alts[find(ok)]), pieces, k + 1)
    ELSE LET ok == {n \in pieces[k].min..run(text, pos, pieces[k]) :
                      matchHere(text, pos + n, pieces, k + 1) # 0}
         IN IF ok = {} THEN 0
            ELSE matchHere(text, pos + (CHOOSE n \in ok : \A m \in ok : m <= n),
                           pieces, k + 1)

\* text.match(pattern)[0]: the first match, or <<>> when match returns null.
firstMatch(text, pieces) ==
  LET starts == {i \in 1..Len(text) : matchHere(text, i, pieces, 1) # 0}
  IN IF starts = {} THEN <<>>
     ELSE SubSeq(text, find(starts), matchHere(text, find(starts), pieces, 1) - 1)

\* The callback of page.evaluate, worker.ts:624-645, on the text of the
\* page.
extractContact(text) ==
  [phone |-> IF firstMatch(text, PhoneSpaced) # <<>> THEN firstMatch(text, PhoneSpaced)
             ELSE firstMatch(text, PhonePlain),
   email |-> firstMatch(text, EmailPattern)]

\* The message of getContactInfo, worker.ts:647-656.
contactMessage(contact) ==
  LET parts == (IF contact.phone # <<>> THEN <<MsgPhone \o contact.phone>> ELSE <<>>)
                 \o (IF contact.email # <<>> THEN <<MsgEmail \o contact.email>> ELSE <<>>)
  IN IF Len(parts) > 0 THEN joinWith(parts, <<46, 32>>) ELSE MsgNoContact

\* Page texts:
\*  1 "Tel: +359 88 123 4567, a@b.com"    2 "Welcome to our hotel"
\*  3 "Call 0881234567"                   4 "Write to john.doe@site.example.com."
\*  5 "a@b.com or +359-881-234-567"       otherwise ""
NumPageTexts == 6
PageTextOf(k) ==
  CASE k = 1 -> <<84, 101, 108, 58, 32, 43, 51, 53, 57, 32, 56, 56, 32, 49, 50, 51, 32, 52, 53, 54, 55, 44, 32, 97, 64, 98, 46, 99, 111, 109>>
    [] k = 2 -> <<87, 101, 108, 99, 111, 109, 101, 32, 116, 111, 32, 111, 117, 114, 32, 104, 111, 116, 101, 108>>
    [] k = 3 -> <<67, 97, 108, 108, 32, 48, 56, 56, 49, 50, 51, 52, 53, 54, 55>>
    [] k = 4 -> <<87, 114, 105, 116, 101, 32, 116, 111, 32, 106, 111, 104, 110, 46, 100, 111, 101, 64, 115, 105, 116, 101, 46, 101, 120, 97, 109, 112, 108, 101, 46, 99, 111, 109, 46>>
    [] k = 5 -> <<97, 64, 98, 46, 99, 111, 109, 32, 111, 114, 32, 43, 51, 53, 57, 45, 56, 56, 49, 45, 50, 51, 52, 45, 53, 54, 55>>
    [] OTHER -> <<>>

Contacts == [k \in 1..NumPageTexts |-> extractContact(PageTextOf(k))]

\* A getContactInfo that observes the page, which C26_SnapshotWhereTaken
\* must tell from getContactInfo.
getContactInfoObserved(o) ==
  [threw |-> FALSE,
   message |-> IF ~o.eval THEN MsgContactError ELSE contactMessage(Contacts[o.text]),
   observation |-> quickObserve(o)]

\* getContactInfo, worker.ts:622-660, on a page whose text is o.text.
getContactInfo(o) ==
  [threw |-> FALSE,
   message |-> IF ~o.eval THEN MsgContactError ELSE contactMessage(Contacts[o.text]),
   observation |-> "none"]

\* navigateTo, worker.ts:662-674.
navigateTo(o) ==
  [threw |-> FALSE,
   message |-> IF o.nav THEN MsgNavigated ELSE MsgNavigateFailed,
   observation |-> IF o.nav THEN quickObserve(o) ELSE "none"]

\* observeCurrentState, worker.ts:676-693.
observeCurrentState(o) ==
  [threw |-> FALSE, message |-> MsgPage, observation |-> quickObserve(o)]

\* The switch of execute, worker.ts:248-276.
runAction(o, action, siteMap, data) ==
  CASE action.type = "fill_form" ->
         [k \in {"threw", "message", "observation"} |->
            fillForm(o, siteMap.forms[action.form], data)[k]]
    [] action.type = "click" ->
         [k \in {"threw", "message", "observation"} |->
            clickButton(o, action.selector, action.buttonText)[k]]
    [] action.type = "return_prices" ->
         [threw |-> FALSE, message |-> formatPrices(siteMap.prices),
          observation |-> "prices"]
    [] action.type = "return_contact" -> getContactInfo(o)
    [] action.type = "navigate" -> navigateTo(o)
    [] OTHER -> observeCurrentState(o)

\* The executor took the page to another location: a click that activated a
\* control, a form that was submitted, a navigation that succeeded.
locationChanged(o, action, siteMap, data) ==
  CASE action.type = "fill_form" ->
         o.moves /\ fillForm(o, siteMap.forms[action.form], data).submitted
    [] action.type = "click" ->
         o.moves /\ clickButton(o, action.selector, action.buttonText).activated
    [] action.type = "navigate" -> o.nav
    [] OTHER -> FALSE

\* The site maps sessions hold and the descriptor matchAction returns for
\* each of them and each request, tabulated once.
SiteMaps == [ref \in 1..LegacyEmptyRef |-> siteMapOf(ref)]

Matched ==
  [ref \in 1..LegacyEmptyRef |->
     [r \in Requests |->
        matchAction(RequestOf(r).keywords, SiteMaps[ref], RequestOf(r).data)]]

\* How a page that is not usable answers: every operation fails.
DeadOracle ==
  [click |-> [i \in 1..4 |-> FALSE], wait |-> [i \in 1..4 |-> FALSE],
   fill |-> {}, submit |-> FALSE, eval |-> FALSE, text |-> 2,
   nav |-> FALSE, moves |-> FALSE]

\* How a live page may answer: everything succeeds; the declared selectors
\* do not match but the fallbacks do; no selector matches.
AllFields == (1..3) \X (1..3)

LiveOracles ==
  { [click |-> [i \in 1..4 |-> TRUE], wait |-> [i \in 1..4 |-> TRUE],
     fill |-> AllFields, submit |-> TRUE, eval |-> TRUE, text |-> 1,
     nav |-> TRUE, moves |-> TRUE],
    [click |-> [i \in 1..4 |-> i = 3], wait |-> [i \in 1..4 |-> TRUE],
     fill |-> {p \in AllFields : p[2] = 2}, submit |-> FALSE, eval |-> TRUE,
     text |-> 3, nav |-> TRUE, moves |-> FALSE],
    [click |-> [i \in 1..4 |-> FALSE], wait |-> [i \in 1..4 |-> TRUE],
     fill |-> {}, submit |-> FALSE, eval |-> TRUE, text |-> 2,
     nav |-> FALSE, moves |-> FALSE] }

(***************************************************************************)
(* Messages of execute and interact (worker.ts gives them in Bulgarian).   *)
(***************************************************************************)
\* "Няма активна сесия. Моля, изчакайте зареждане.", worker.ts:217.
MsgNoSession == <<1053, 1103, 1084, 1072, 32, 1072, 1082, 1090, 1080, 1074, 1085, 1072, 32, 1089, 1077, 1089, 1080, 1103, 46, 32, 1052, 1086, 1083, 1103, 44, 32, 1080, 1079, 1095, 1072, 1082, 1072, 1081, 1090, 1077, 32, 1079, 1072, 1088, 1077, 1078, 1076, 1072, 1085, 1077, 46>>
\* "Грешка при възстановяване на сесията", worker.ts:237.
MsgRecoveryFailed == <<1043, 1088, 1077, 1096, 1082, 1072, 32, 1087, 1088, 1080, 32, 1074, 1098, 1079, 1089, 1090, 1072, 1085, 1086, 1074, 1103, 1074, 1072, 1085, 1077, 32, 1085, 1072, 32, 1089, 1077, 1089, 1080, 1103, 1090, 1072>>
\* "Грешка при изпълнение", worker.ts:286.
MsgExecError == <<1043, 1088, 1077, 1096, 1082, 1072, 32, 1087, 1088, 1080, 32, 1080, 1079, 1087, 1098, 1083, 1085, 1077, 1085, 1080, 1077>>
\* "Worker не е готов", worker.ts:314.
MsgNotReady == <<87, 111, 114, 107, 101, 114, 32, 1085, 1077, 32, 1077, 32, 1075, 1086, 1090, 1086, 1074>>
\* "Грешка при свързване със сайта", worker.ts:365.
MsgConnectFailed == <<1043, 1088, 1077, 1096, 1082, 1072, 32, 1087, 1088, 1080, 32, 1089, 1074, 1098, 1088, 1079, 1074, 1072, 1085, 1077, 32, 1089, 1098, 1089, 32, 1089, 1072, 1081, 1090, 1072>>

\* A call returns to its caller.
Return(rec, ok, msg, obs) ==
  [rec EXCEPT !.pc = "done", !.ok = ok, !.msg = msg, !.obs = obs]

\* A call ends by throwing to its caller.
Throw(rec) == [rec EXCEPT !.pc = "done", !.threw = TRUE]

\* Calls take steps while the process runs; a returned result is handed to
\* the caller before anything else happens.
Active == ~exited /\ \A c \in Slots : calls[c].pc # "done"

\* A new call takes the first free slot.
Begin(c) ==
  /\ started < MaxStarted
  /\ started' = started + 1
  /\ probe' = probe
  /\ UNCHANGED <<faults, crashes>>
  /\ calls[c].op = "idle"
  /\ \A j \in Slots : calls[j].op = "idle" => c <= j

\* The identifiers some session, call or detached close refers to.
KnownIds ==
  Keys(sessions) \cup {calls[c].id : c \in Slots} \cup {closers[k].id : k \in CloserSlots}

\* Site identifiers are opaque keys: the code never compares two of them
\* except for equality, so identifiers nothing refers to are
\* interchangeable.  A call names a known identifier or the smallest of the
\* others.
UseId(id) ==
  \/ id \in KnownIds
  \/ \A j \in Ids \ KnownIds : id <= j

\* A step of a call in flight, or of the environment.
Step == started' = started /\ probe' = probe

\* The driver operation of a step succeeds, or fails.
Succeeds == UNCHANGED <<faults, crashes>>

Fails == faults < MaxFaults /\ faults' = faults + 1 /\ crashes' = crashes

(***************************************************************************)
(* evictOldestSession(), worker.ts:805-818.                                *)
(***************************************************************************)
\* The scan (:806-812): the index of `oldest` in the store (0: null).
RECURSIVE OldestFrom(_, _, _)
OldestFrom(store, i, oldest) ==
  IF i > Len(store) THEN oldest
  ELSE OldestFrom(store, i + 1,
         IF oldest = 0 \/ store[i].lastActivity < store[oldest].lastActivity
           THEN i ELSE oldest)

\* A first-in-first-out eviction, which C2_EvictsOldest must tell from the
\* scan for the minimum.
OldestFifo(store) == IF store = <<>> THEN 0 ELSE 1

Oldest(store) == OldestFrom(store, 1, 0)

\* The capacity check of prepareSession (:155) finds something to evict.
EvictNeeded(store) == Len(store) >= MAX_SESSIONS /\ Oldest(store) # 0

(***************************************************************************)
(* The action of execute: matchAction and the start of the executor,       *)
(* worker.ts:242-276.  return_prices touches no page and returns at once.  *)
(***************************************************************************)
\* return { success: true, ...result }, worker.ts:281, or the catch :283-287.
executeReturn(rec, result) ==
  IF result.threw
    THEN Return(rec, FALSE, MsgExecError, "none")
    ELSE Return(rec, TRUE, result.message, result.observation)

\* A start that gives way when another call is at work on the page, which
\* C28_NoSessionLock must tell from the start of the executor.
startActionExclusive(rec) ==
  LET action == Matched[rec.sm][rec.req]
  IN IF \E j \in Slots : calls[j].pc = "e_act" /\ calls[j].page = rec.page
       THEN Return(rec, FALSE, MsgExecError, "none")
     ELSE IF action.type = "return_prices"
       THEN executeReturn([rec EXCEPT !.acted = TRUE],
                          runAction(DeadOracle, action, SiteMaps[rec.sm],
                                    RequestOf(rec.req).data))
       ELSE [rec EXCEPT !.pc = "e_act", !.acted = TRUE]

startAction(rec) ==
  LET action == Matched[rec.sm][rec.req]
  IN IF action.type = "return_prices"
       THEN executeReturn([rec EXCEPT !.acted = TRUE],
                          runAction(DeadOracle, action, SiteMaps[rec.sm],
                                    RequestOf(rec.req).data))
       ELSE [rec EXCEPT !.pc = "e_act", !.acted = TRUE]

(***************************************************************************)
(* prepareSession(siteId, siteMap), worker.ts:139-199.  The same steps     *)
(* serve the public call (op "prepare") and the re-run execute makes on a  *)
(* failed liveness probe (op "execute" or "interact").  `store` is the     *)
(* Session Store as the step leaves it.                                    *)
(***************************************************************************)
\* An execute that does not look the store up after the re-run, which
\* C8_RecreatedAtMostOnce must tell from worker.ts:234-239.
prepareReturnUnchecked(rec, b, store) ==
  IF rec.op = "prepare" THEN Return(rec, b, "", "none") ELSE startAction(rec)

\* prepareSession returns b.  In execute the re-run's result is ignored and
\* the store is looked up again (:234-239).
prepareReturn(rec, b, store) ==
  IF rec.op = "prepare"
    THEN Return(rec, b, "", "none")
    ELSE IF ~Has(store, rec.id)
      THEN Return(rec, FALSE, MsgRecoveryFailed, "none")
      ELSE startAction(rec)

\* A catch that reports success, which C5_PrepareFailsCleanly must tell from
\* the catch of prepareSession.
prepareCatchTrue(rec, store) == prepareReturn(rec, TRUE, store)

\* catch (error) { return false }, worker.ts:195-198.
prepareCatch(rec, store) == prepareReturn(rec, FALSE, store)

\* The capacity check and eviction (:155-157), then newContext starts (:160).
\* The session closeSession held is out of scope; execute still holds its own.
passCapacity(rec, store) ==
  IF rec.op = "prepare"
    THEN [rec EXCEPT !.pc = "p_open", !.page = 0, !.ctx = 0]
    ELSE [rec EXCEPT !.pc = "p_open"]

\* A shutdown that closes the first session only, which
\* C13_ShutdownEmptiesStoreAlone must tell from the loop over the store.
shutdownFirstOnly(rec, store) ==
  IF store # <<>> /\ rec.page = 0
    THEN [rec EXCEPT !.id = Head(store).id, !.page = Head(store).page,
                     !.ctx = Head(store).context,
                     !.pc = "cl_page"]
    ELSE IF browser # "none"
      THEN [rec EXCEPT !.pc = "sd_browser", !.id = 0]
      ELSE Return(rec, TRUE, "", "none")

\* shutdown's loop (:832-834): every entry the iterator passed was deleted,
\* so the next entry is the first; then browser.close() (:835-837).
shutdownNext(rec, store) ==
  IF store # <<>>
    THEN [rec EXCEPT !.id = Head(store).id, !.page = Head(store).page,
                     !.ctx = Head(store).context,
                     !.pc = "cl_page"]
    ELSE IF browser # "none"
      THEN [rec EXCEPT !.pc = "sd_browser", !.id = 0, !.page = 0, !.ctx = 0]
      ELSE Return(rec, TRUE, "", "none")

\* Where the caller of an awaited closeSession continues.
AfterClose(rec, store) ==
  CASE rec.op = "close" -> Return(rec, TRUE, "", "none")   \* :903-908
    [] rec.op = "shutdown" -> shutdownNext(rec, store)
    [] OTHER -> passCapacity(rec, store)

\* A closeSession that finds no session whatever the store holds: nothing
\* is closed and nothing is deleted.
closeSessionStartAbsent(rec, id, store) == AfterClose(rec, store)

\* closeSession, synchronous part (:778-781): look the session up and start
\* closing its page.
closeSessionStart(rec, id, store) ==
  IF Has(store, id)
    THEN [rec EXCEPT !.id = id, !.page = Get(store, id).page,
                     !.ctx = Get(store, id).context,
                     !.pc = "cl_page"]
    ELSE AfterClose(rec, store)

\* A prepareSession that keeps the previous session of the id instead of
\* closing it (:152 left out).
prepareEnterKeepsPrevious(rec, store) ==
  IF ~isReady \/ browser = "none"
    THEN prepareReturn(rec, FALSE, store)
    ELSE passCapacity(rec, store)

\* Entry of prepareSession: the readiness guard (:140-143), then
\* closeSession(siteId) (:152).
prepareEnter(rec, store) ==
  IF ~isReady \/ browser = "none"
    THEN prepareReturn(rec, FALSE, store)
    ELSE closeSessionStart(rec, rec.id, store)

\* closeSession called without await (evictOldestSession :816,
\* cleanupSessions :795): its synchronous part runs in the caller's step,
\* the rest on its own.
SpawnCloser(cl, e, by) ==
  LET k == CHOOSE k \in CloserSlots :
             /\ cl[k].pc = "idle"
             /\ \A j \in CloserSlots : cl[j].pc = "idle" => k <= j
  IN [cl EXCEPT ![k] = [pc |-> "page", id |-> e.id, page |-> e.page,
                        ctx |-> e.context, by |-> by]]

\* The eviction a call starts in the step in which it passes the capacity
\* check; r is the call's record after the step.
Evict(r, store) ==
  IF r.pc = "p_open" /\ EvictNeeded(store)
    THEN /\ FreeCloserSlots # {}
         /\ closers' = SpawnCloser(closers, store[Oldest(store)], "evict")
    ELSE closers' = closers

\* process.exit(0) follows `await manager.shutdown()` (:942-952).
ExitAfter(r) ==
  exited' = (r.op = "shutdown" /\ r.pc = "done" /\ ~r.threw)

\* A step of call c that leaves it with record r and the store as `store`.
Continue(c, r, store) ==
  /\ calls' = [calls EXCEPT ![c] = r]
  /\ sessions' = store
  /\ Evict(r, store)
  /\ ExitAfter(r)

PrepareCall(c, id, sm) ==
  /\ Active
  /\ Begin(c)
  /\ UseId(id)
  /\ Continue(c, prepareEnter(NewCall("prepare", id, sm, 0), sessions), sessions)
  /\ UNCHANGED <<isReady, browser, pageState, pageUrl, ctxState, now>>

(***************************************************************************)
(* closeSession(siteId), worker.ts:777-787, awaited by a call.             *)
(***************************************************************************)
\* A closeSession whose delete is inside the try, which C12_CloseRemovesEntry
\* must tell from the delete after the catch.
ClosePageDeleteInTry(c) ==
  /\ Active
  /\ Step
  /\ calls[c].pc = "cl_page"
  /\ \/ /\ Succeeds
        /\ pageState' = [pageState EXCEPT ![calls[c].page] = "closed"]
        /\ pageUrl' = pageUrl
        /\ calls' = [calls EXCEPT ![c].pc = "cl_ctx"]
        /\ UNCHANGED <<sessions, closers, exited>>
     \/ /\ Fails
        /\ Continue(c, AfterClose(calls[c], sessions), sessions)
        /\ UNCHANGED <<pageState, pageUrl>>
  /\ UNCHANGED <<isReady, browser, ctxState, now>>

\* `await session.page.close()` settles.
ClosePage(c) ==
  /\ Active
  /\ Step
  /\ calls[c].pc = "cl_page"
  /\ \/ /\ Succeeds
        /\ pageState' = [pageState EXCEPT ![calls[c].page] = "closed"]
        /\ pageUrl' = pageUrl
        /\ calls' = [calls EXCEPT ![c].pc = "cl_ctx"]
        /\ UNCHANGED <<sessions, closers, exited>>
     \/ \* page.close() rejects: catch {} (:783), then delete (:784)
        /\ Fails
        /\ Continue(c, AfterClose(calls[c], MapDelete(sessions, calls[c].id)),
                    MapDelete(sessions, calls[c].id))
        /\ UNCHANGED <<pageState, pageUrl>>
  /\ UNCHANGED <<isReady, browser, ctxState, now>>

\* The driver's effect of closing a context: the context and its page.
CloseContextEffect(h) ==
  /\ ctxState' = [ctxState EXCEPT ![h] = "closed"]
  /\ pageState' = [pageState EXCEPT ![h] = IF @ = "none" THEN @ ELSE "closed"]
  /\ pageUrl' = pageUrl

\* `await session.context.close()` settles; then sessions.delete (:784).
CloseCtx(c) ==
  /\ Active
  /\ Step
  /\ calls[c].pc = "cl_ctx"
  /\ \/ Succeeds /\ CloseContextEffect(calls[c].ctx)
     \/ Fails /\ UNCHANGED <<ctxState, pageState, pageUrl>>
  /\ Continue(c, AfterClose(calls[c], MapDelete(sessions, calls[c].id)),
              MapDelete(sessions, calls[c].id))
  /\ UNCHANGED <<isReady, browser, now>>

\* The same two steps of a closeSession nobody awaits.
CloserPage(k) ==
  /\ Active
  /\ Step
  /\ closers[k].pc = "page"
  /\ \/ /\ Succeeds
        /\ pageState' = [pageState EXCEPT ![closers[k].page] = "closed"]
        /\ pageUrl' = pageUrl
        /\ closers' = [closers EXCEPT ![k].pc = "ctx"]
        /\ UNCHANGED sessions
     \/ /\ Fails
        /\ sessions' = MapDelete(sessions, closers[k].id)
        /\ closers' = [closers EXCEPT ![k] = IdleCloser]
        /\ UNCHANGED <<pageState, pageUrl>>
  /\ UNCHANGED <<isReady, browser, ctxState, now, calls, exited>>

\* A detached close that forgets the entry, which C11_SweptEventuallyAbsent
\* must tell from closeSession.
CloserCtxKeepsEntry(k) ==
  /\ Active
  /\ Step
  /\ closers[k].pc = "ctx"
  /\ \/ Succeeds /\ CloseContextEffect(closers[k].ctx)
     \/ Fails /\ UNCHANGED <<ctxState, pageState, pageUrl>>
  /\ closers' = [closers EXCEPT ![k] = IdleCloser]
  /\ UNCHANGED <<isReady, browser, now, calls, exited, sessions>>

CloserCtx(k) ==
  /\ Active
  /\ Step
  /\ closers[k].pc = "ctx"
  /\ \/ Succeeds /\ CloseContextEffect(closers[k].ctx)
     \/ Fails /\ UNCHANGED <<ctxState, pageState, pageUrl>>
  /\ sessions' = MapDelete(sessions, closers[k].id)
  /\ closers' = [closers EXCEPT ![k] = IdleCloser]
  /\ UNCHANGED <<isReady, browser, now, calls, exited>>

\* The route POST /close-session (and /close), worker.ts:903-908, 920-925.
CloseCall(c, id) ==
  /\ Active
  /\ Begin(c)
  /\ UseId(id)
  /\ Continue(c, closeSessionStart(NewCall("close", id, 0, 0), id, sessions), sessions)
  /\ UNCHANGED <<isReady, browser, pageState, pageUrl, ctxState, now>>

\* page.url() once goto has loaded the site, and once an action has taken
\* the page elsewhere.
LoadedUrl == "site"
MovedUrl == "next"

\* newContext (:160), newPage (:168), goto (:174) and waitForTimeout (:180)
\* settle; then sessions.set (:183-189) and return true.  On a failure the
\* catch returns false and what was opened stays open.
\* A manager that opens every session on one pooled context, which
\* C14_HandlesNotShared must tell from browser.newContext().
NextHandlePooled == CHOOSE h \in Handles : \A j \in Handles : h <= j

NextHandle == CHOOSE h \in Handles :
                /\ ctxState[h] = "none"
                /\ \A j \in Handles : ctxState[j] = "none" => h <= j

CanOpen == browser = "open" /\ \E h \in Handles : ctxState[h] = "none"

\* Another call stored a session: note it in every other call in flight.
NoteInsert(cs, c) ==
  [j \in Slots |->
     IF j # c /\ cs[j].op \in {"prepare", "shutdown"} /\ cs[j].pc # "done"
       THEN [cs[j] EXCEPT !.overlap = TRUE] ELSE cs[j]]

PrepareOpen(c) ==
  /\ Active
  /\ Step
  /\ calls[c].pc = "p_open"
  /\ \/ \* newContext rejects
        /\ Fails
        /\ Continue(c, prepareCatch(calls[c], sessions), sessions)
        /\ UNCHANGED <<ctxState, pageState, pageUrl>>
     \/ \* newPage rejects
        /\ Fails
        /\ CanOpen
        /\ ctxState' = [ctxState EXCEPT ![NextHandle] = "open"]
        /\ Continue(c, prepareCatch([calls[c] EXCEPT !.nctx = NextHandle], sessions),
                    sessions)
        /\ UNCHANGED <<pageState, pageUrl>>
     \/ \* goto or waitForTimeout rejects
        /\ Fails
        /\ CanOpen
        /\ ctxState' = [ctxState EXCEPT ![NextHandle] = "open"]
        /\ pageState' = [pageState EXCEPT ![NextHandle] = "open"]
        /\ pageUrl' = pageUrl
        /\ Continue(c, prepareCatch([calls[c] EXCEPT !.nctx = NextHandle,
                                                     !.npage = NextHandle], sessions),
                    sessions)
     \/ \* the session is stored
        /\ Succeeds
        /\ CanOpen
        /\ ctxState' = [ctxState EXCEPT ![NextHandle] = "open"]
        /\ pageState' = [pageState EXCEPT ![NextHandle] = "open"]
        /\ pageUrl' = [pageUrl EXCEPT ![NextHandle] = LoadedUrl]
        /\ LET store == MapSet(sessions,
                          HotSession(calls[c].id, NextHandle, NextHandle,
                                     calls[c].sm, now, LoadedUrl))
               r == prepareReturn([calls[c] EXCEPT !.nctx = NextHandle,
                                                   !.npage = NextHandle], TRUE, store)
           IN /\ calls' = NoteInsert([calls EXCEPT ![c] = r], c)
              /\ sessions' = store
              /\ closers' = closers
              /\ ExitAfter(r)
  /\ UNCHANGED <<isReady, browser, now>>

(***************************************************************************)
(* execute(request), worker.ts:205-288.                                    *)
(***************************************************************************)
\* Synchronous part (:210-231): look the session up, touch lastActivity,
\* start the liveness probe.
executeEnter(rec, store) ==
  IF ~Has(store, rec.id)
    THEN Return(rec, FALSE, MsgNoSession, "none")
    ELSE [rec EXCEPT !.page = Get(store, rec.id).page,
                     !.ctx = Get(store, rec.id).context,
                     !.sm = Get(store, rec.id).siteMap,
                     !.pc = "e_probe"]

\* A touch that stamps the session with the start of the epoch, which
\* C15_LastActivityMonotonic must tell from the stamp Date.now().
touchEpoch(store, id, t) ==
  IF Has(store, id)
    THEN [store EXCEPT ![IndexOf(store, id)].lastActivity = 0]
    ELSE store

\* A touch of every stored session, which C6_UnknownIdIsInert must tell from
\* the touch of the session found.
touchAll(store, id, t) ==
  [i \in 1..Len(store) |-> [store[i] EXCEPT !.lastActivity = t]]

\* session.lastActivity = Date.now() (:222).
touch(store, id, t) ==
  IF Has(store, id)
    THEN [store EXCEPT ![IndexOf(store, id)].lastActivity = t]
    ELSE store

ExecuteCall(c, id, req) ==
  /\ Active
  /\ Begin(c)
  /\ UseId(id)
  /\ Continue(c, executeEnter(NewCall("execute", id, 0, req), sessions),
              touch(sessions, id, now))
  /\ UNCHANGED <<isReady, browser, pageState, pageUrl, ctxState, now>>

\* `await session.page.evaluate(() => true)` settles (:230-239): on success
\* the action starts; on failure prepareSession is re-run with the held
\* session's site map.
ExecProbe(c) ==
  /\ Active
  /\ Step
  /\ calls[c].pc = "e_probe"
  /\ Succeeds
  /\ IF pageState[calls[c].page] = "open"
       THEN Continue(c, startAction(calls[c]), sessions)
       ELSE Continue(c, prepareEnter([calls[c] EXCEPT !.reprep = @ + 1], sessions),
                     sessions)
  /\ UNCHANGED <<isReady, browser, pageState, pageUrl, ctxState, now>>

\* The executor runs against the page the call holds (`session.page`) and
\* execute returns (:248-287).
ExecAct(c) ==
  /\ Active
  /\ Step
  /\ calls[c].pc = "e_act"
  /\ Succeeds
  /\ \E o \in IF pageState[calls[c].page] = "open" THEN LiveOracles ELSE {DeadOracle} :
       /\ Continue(c, executeReturn(calls[c],
                        runAction(o, Matched[calls[c].sm][calls[c].req],
                                  SiteMaps[calls[c].sm], RequestOf(calls[c].req).data)),
                   sessions)
       /\ pageUrl' = IF locationChanged(o, Matched[calls[c].sm][calls[c].req],
                                        SiteMaps[calls[c].sm],
                                        RequestOf(calls[c].req).data)
                       THEN [pageUrl EXCEPT ![calls[c].page] = MovedUrl]
                       ELSE pageUrl
  /\ UNCHANGED <<isReady, browser, pageState, ctxState, now>>

(***************************************************************************)
(* interact(request), worker.ts:294-392.                                   *)
(***************************************************************************)
\* An interact that creates a session whether or not the id has one, which
\* C27_InteractSynthesizesOnce must tell from interact.
interactEnterAlwaysCreates(rec, store) ==
  IF browser = "none" THEN Return(rec, FALSE, MsgNotReady, "none")
  ELSE [rec EXCEPT !.pc = "i_open"]

\* Synchronous part (:301-318): reuse the session, or start creating one.
interactEnter(rec, store) ==
  IF Has(store, rec.id) THEN executeEnter(rec, store)
  ELSE IF browser = "none" THEN Return(rec, FALSE, MsgNotReady, "none")
  ELSE [rec EXCEPT !.pc = "i_open"]

InteractCall(c, id, req) ==
  /\ Active
  /\ Begin(c)
  /\ UseId(id)
  /\ Continue(c, interactEnter(NewCall("interact", id, 0, req), sessions),
              touch(sessions, id, now))
  /\ UNCHANGED <<isReady, browser, pageState, pageUrl, ctxState, now>>

\* A catch that rethrows, which C10_NoDriverFailureThrown must tell from
\* the catch of interact.
interactCatchRethrow(rec) == Throw(rec)

\* catch (error) of the session creation (:363-366).
interactCatch(rec) == Return(rec, FALSE, MsgConnectFailed, "none")

\* newContext, newPage, goto, waitForTimeout and observeDOM settle
\* (:318-337); the session is stored (:352-360) and execute begins (:377).
InteractOpen(c) ==
  /\ Active
  /\ Step
  /\ calls[c].pc = "i_open"
  /\ \/ \* newContext rejects
        /\ Fails
        /\ Continue(c, interactCatch(calls[c]), sessions)
        /\ UNCHANGED <<ctxState, pageState, pageUrl>>
     \/ \* newPage rejects
        /\ Fails
        /\ CanOpen
        /\ ctxState' = [ctxState EXCEPT ![NextHandle] = "open"]
        /\ Continue(c, interactCatch([calls[c] EXCEPT !.nctx = NextHandle]), sessions)
        /\ UNCHANGED <<pageState, pageUrl>>
     \/ \* goto, waitForTimeout or observeDOM rejects
        /\ Fails
        /\ CanOpen
        /\ ctxState' = [ctxState EXCEPT ![NextHandle] = "open"]
        /\ pageState' = [pageState EXCEPT ![NextHandle] = "open"]
        /\ pageUrl' = pageUrl
        /\ Continue(c, interactCatch([calls[c] EXCEPT !.nctx = NextHandle,
                                                      !.npage = NextHandle]), sessions)
     \/ \* the session is stored
        /\ Succeeds
        /\ CanOpen
        /\ ctxState' = [ctxState EXCEPT ![NextHandle] = "open"]
        /\ pageState' = [pageState EXCEPT ![NextHandle] = "open"]
        /\ pageUrl' = [pageUrl EXCEPT ![NextHandle] = LoadedUrl]
        /\ \E ref \in {LegacyRef, LegacyEmptyRef} :
             LET store == MapSet(sessions,
                            HotSession(calls[c].id, NextHandle, NextHandle, ref, now,
                                       LoadedUrl))
                 r == executeEnter([calls[c] EXCEPT !.nctx = NextHandle,
                                                    !.npage = NextHandle], store)
             IN /\ calls' = NoteInsert([calls EXCEPT ![c] = r], c)
                /\ sessions' = store
                /\ closers' = closers
                /\ ExitAfter(r)
  /\ UNCHANGED <<isReady, browser, now>>

(***************************************************************************)
(* shutdown(), worker.ts:830-840, called by the signal handlers :942-952.  *)
(***************************************************************************)
ShutdownCall(c) ==
  /\ Active
  /\ Begin(c)
  /\ Continue(c, shutdownNext(NewCall("shutdown", 0, 0, 0), sessions), sessions)
  /\ UNCHANGED <<isReady, browser, pageState, pageUrl, ctxState, now>>

\* `await this.browser.close()` settles (:836); it is not inside a try.
ShutdownBrowser(c) ==
  /\ Active
  /\ Step
  /\ calls[c].pc = "sd_browser"
  /\ \/ /\ Succeeds
        /\ browser' = "closed"
        /\ ctxState' = [h \in Handles |-> IF ctxState[h] = "none" THEN "none" ELSE "closed"]
        /\ pageState' = [h \in Handles |-> IF pageState[h] = "none" THEN "none" ELSE "closed"]
        /\ pageUrl' = pageUrl
        /\ Continue(c, Return(calls[c], TRUE, "", "none"), sessions)
     \/ /\ Fails
        /\ Continue(c, Throw(calls[c]), sessions)
        /\ UNCHANGED <<browser, ctxState, pageState, pageUrl>>
  /\ UNCHANGED <<isReady, now>>

(***************************************************************************)
(* start(), worker.ts:114-133, and the sweep it schedules, :789-803.       *)
(***************************************************************************)
start ==
  /\ Active
  /\ Step
  /\ browser = "none"
  /\ browser' = "open"
  /\ isReady' = TRUE
  /\ Succeeds
  /\ UNCHANGED <<sessions, pageState, pageUrl, ctxState, now, calls, closers, exited>>

\* The entries cleanupSessions closes at clock value t (:794).
Expired(store, t) ==
  SelectSeq(store, LAMBDA e : t - e.lastActivity > SESSION_TIMEOUT)

RECURSIVE SpawnAll(_, _)
SpawnAll(cl, es) ==
  IF es = <<>> THEN cl ELSE SpawnAll(SpawnCloser(cl, Head(es), "sweep"), Tail(es))

cleanupSessions ==
  /\ Active
  /\ Step
  /\ isReady
  /\ Expired(sessions, now) # <<>>
  /\ Succeeds
  /\ Len(Expired(sessions, now)) <= Cardinality(FreeCloserSlots)
  /\ closers' = SpawnAll(closers, Expired(sessions, now))
  /\ UNCHANGED <<isReady, browser, sessions, pageState, pageUrl, ctxState, now, calls, exited>>

(***************************************************************************)
(* The environment: the clock, pages that die, results being delivered.    *)
(***************************************************************************)
Tick ==
  /\ Active
  /\ Step
  /\ now < MaxTime
  /\ now' = now + 1
  /\ Succeeds
  /\ UNCHANGED <<isReady, browser, sessions, pageState, pageUrl, ctxState, calls, closers, exited>>

\* The page of a stored session crashes or is closed by the site.
PageCrash(h) ==
  /\ Active
  /\ Step
  /\ pageState[h] = "open"
  /\ \E i \in 1..Len(sessions) : sessions[i].page = h
  /\ pageState' = [pageState EXCEPT ![h] = "dead"]
  /\ pageUrl' = pageUrl
  /\ crashes < MaxCrashes
  /\ crashes' = crashes + 1
  /\ faults' = faults
  /\ UNCHANGED <<isReady, browser, sessions, ctxState, now, calls, closers, exited>>

\* The caller has received the result; the slot is free again.
Deliver(c) ==
  /\ ~exited
  /\ Step
  /\ calls[c].pc = "done"
  /\ calls' = [calls EXCEPT ![c] = IdleCall]
  /\ Succeeds
  /\ UNCHANGED <<isReady, browser, sessions, pageState, pageUrl, ctxState, now, closers, exited>>

ManagerInit ==
  /\ isReady = FALSE
  /\ browser = "none"
  /\ sessions = <<>>
  /\ pageState = [h \in Handles |-> "none"]
  /\ pageUrl = [h \in Handles |-> "none"]
  /\ ctxState = [h \in Handles |-> "none"]
  /\ now = 0
  /\ calls = [c \in Slots |-> IdleCall]
  /\ closers = [k \in CloserSlots |-> IdleCloser]
  /\ exited = FALSE
  /\ started = 0
  /\ faults = 0
  /\ crashes = 0

Init == ManagerInit /\ probe = NoProbe

\* The environment and the detached closeSession calls.
Background ==
  \/ start
  \/ Tick
  \/ cleanupSessions
  \/ \E h \in Handles : PageCrash(h)
  \/ \E k \in CloserSlots : CloserPage(k)
  \/ \E k \in CloserSlots : CloserCtx(k)
  \/ \E c \in Slots : Deliver(c)

\* The steps of prepare, execute, close and shutdown calls in flight.
Steps ==
  \/ \E c \in Slots : ClosePage(c)
  \/ \E c \in Slots : CloseCtx(c)
  \/ \E c \in Slots : PrepareOpen(c)
  \/ \E c \in Slots : ExecProbe(c)
  \/ \E c \in Slots : ExecAct(c)
  \/ \E c \in Slots : ShutdownBrowser(c)

\* The requests callers send while calls overlap freely.
MainRequests == {2, 4}

\* Callers that send one request at a time wait for the previous result.
Alone == \A c \in Slots : calls[c].op = "idle"

\* A run of at most MaxOverlapped calls.
Few == started < MaxOverlapped

\* Spec: the hot path (/prepare-session, /execute, /close-session and the
\* termination signals), up to MaxCalls calls in flight at once.
Next ==
  \/ Background
  \/ Steps
  \/ \E c \in Slots, id \in Ids, sm \in SiteMapRefs : Few /\ PrepareCall(c, id, sm)
  \/ \E c \in Slots, id \in Ids, req \in MainRequests : Few /\ ExecuteCall(c, id, req)
  \/ \E c \in Slots, id \in Ids : Few /\ CloseCall(c, id)
  \/ \E c \in Slots : Few /\ ShutdownCall(c)

Spec == Init /\ [][Next]_vars

\* SpecSeq: the hot path, the callers sending one request at a time
\* (detached closes, the sweep and the environment still run during a
\* call); runs of MaxStarted calls.
NextSeq ==
  \/ Background
  \/ Steps
  \/ \E c \in Slots, id \in Ids, sm \in SiteMapRefs : Alone /\ PrepareCall(c, id, sm)
  \/ \E c \in Slots, id \in Ids, req \in MainRequests : Alone /\ ExecuteCall(c, id, req)
  \/ \E c \in Slots, id \in Ids : Alone /\ CloseCall(c, id)
  \/ \E c \in Slots : Alone /\ ShutdownCall(c)

SpecSeq == Init /\ [][NextSeq]_vars

\* SpecLegacy: the hot path together with the legacy /interact route, one
\* request at a time.
NextLegacy ==
  \/ Background
  \/ Steps
  \/ \E c \in Slots : InteractOpen(c)
  \/ \E c \in Slots, id \in Ids : Alone /\ Few /\ PrepareCall(c, id, 1)
  \/ \E c \in Slots, id \in Ids, req \in MainRequests : Alone /\ Few /\ ExecuteCall(c, id, req)
  \/ \E c \in Slots, id \in Ids, req \in MainRequests : Alone /\ Few /\ InteractCall(c, id, req)
  \/ \E c \in Slots, id \in Ids : Alone /\ Few /\ CloseCall(c, id)
  \/ \E c \in Slots : Alone /\ Few /\ ShutdownCall(c)

SpecLegacy == Init /\ [][NextLegacy]_vars

\* SpecMatch: matchAction on its own, called once with each keyword list,
\* structured data and site map of ProbeCalls.
InitMatch ==
  /\ ManagerInit
  /\ probe \in {[words |-> p.words, siteMap |-> p.siteMap, data |-> p.data,
                  returned |-> FALSE, action |-> NoAction] : p \in ProbeCalls}

Match ==
  /\ ~probe.returned
  /\ probe.siteMap # 0
  /\ probe' = [probe EXCEPT
                 !.returned = TRUE,
                 !.action = matchAction(KeywordsOf(probe.words),
                                        MatchSiteMapOf(probe.siteMap),
                                        MatchDataOf(probe.data))]
  /\ UNCHANGED <<isReady, browser, sessions, pageState, pageUrl, ctxState, now, calls,
                 closers, exited, started, faults, crashes>>

NextMatch == Match

SpecMatch == InitMatch /\ [][NextMatch]_vars

\* SpecExec: the executors on their own, each called once with each of
\* ExecutorCalls.
\* Price entries: "120 лв" of "Стандартна стая"; "90 EUR" without context.
PriceEntries ==
  { [text |-> <<49, 50, 48, 32, 1083, 1074>>, context |-> <<1057, 1090, 1072, 1085, 1076, 1072, 1088, 1090, 1085, 1072, 32, 1089, 1090, 1072, 1103>>],
    [text |-> <<57, 48, 32, 69, 85, 82>>, context |-> <<>>] }

MaxPrices == 6
PriceLists == UNION {[1..n -> PriceEntries] : n \in 0..MaxPrices}

\* A form whose first field has no declared selector and a keyword in
\* capitals, whose second field is declared with a guest and a check-in
\* keyword, and whose third field has no keywords.
StayForm ==
  [selector |-> "#stay",
   fields |-> << Field(<<99, 104, 101, 99, 107, 95, 111, 117, 116>>, "", "date", <<<<67, 104, 101, 99, 107, 45, 79, 117, 116>>>>),
                 Field(<<103, 117, 101, 115, 116, 115, 95, 105, 110>>, "#g", "text", <<<<103, 117, 101, 115, 116, 115>>, <<99, 104, 101, 99, 107, 45, 105, 110>>>>),
                 Field(<<112, 114, 111, 109, 111>>, "#p", "text", <<>>) >>,
   submit_button |-> "#go"]

ExecForms == <<BookingForm, ArrivalForm, NoteForm, StayForm>>

\* How the page answers an executor: the text it shows, the fields it lets
\* fill, the clicks it accepts, the navigation.
PageOracles ==
  {[DeadOracle EXCEPT !.eval = e, !.text = k] : e \in BOOLEAN, k \in 1..NumPageTexts}
FillOracles ==
  {[DeadOracle EXCEPT !.eval = e, !.fill = f, !.submit = sb] :
     e \in BOOLEAN, f \in SUBSET AllFields, sb \in BOOLEAN}
ClickOracles ==
  {[DeadOracle EXCEPT !.eval = e, !.click = cl, !.wait = w] :
     e \in BOOLEAN, cl \in [1..4 -> BOOLEAN], w \in [1..4 -> BOOLEAN]}
LoadOracles ==
  {[DeadOracle EXCEPT !.eval = e, !.nav = n] : e \in BOOLEAN, n \in BOOLEAN}

NoResult == [threw |-> FALSE, message |-> <<>>, observation |-> "none"]
NoFill ==
  [threw |-> FALSE, actions |-> <<>>, submitTried |-> FALSE, submitted |-> FALSE,
   message |-> <<>>, observation |-> "none"]

ExecutorCall(type, prices, form, data, buttonText, o) ==
  [type |-> type, prices |-> prices, form |-> form, data |-> data,
   buttonText |-> buttonText, o |-> o]

ExecutorCalls ==
  {ExecutorCall("return_prices", pl, 0, 1, <<>>, DeadOracle) : pl \in PriceLists}
    \cup {ExecutorCall("return_contact", <<>>, 0, 1, <<>>, o) : o \in PageOracles}
    \cup {ExecutorCall("fill_form", <<>>, f, d, <<>>, o) :
            f \in 1..Len(ExecForms), d \in 1..NumMatchData, o \in FillOracles}
    \cup {ExecutorCall("click", <<>>, 0, 1, t, o) :
            t \in {<<>>, BtnBook.text}, o \in ClickOracles}
    \cup {ExecutorCall(type, <<>>, 0, 1, <<>>, o) :
            type \in {"navigate", "observe"}, o \in LoadOracles}

InitExec ==
  /\ ManagerInit
  /\ probe \in {[type |-> p.type, prices |-> p.prices, form |-> p.form, data |-> p.data,
                  buttonText |-> p.buttonText, o |-> p.o,
                  returned |-> FALSE, result |-> NoResult, fill |-> NoFill] :
                   p \in ExecutorCalls}

\* One executor is run through the switch of execute; for fill_form the
\* call of fillForm is kept whole.
RunExecutor(type) ==
  /\ ~probe.returned
  /\ probe.type = type
  /\ probe' = [probe EXCEPT
                 !.returned = TRUE,
                 !.result = runAction(probe.o,
                                      Descriptor(type, probe.form, "#declared", probe.buttonText),
                                      [url |-> "", buttons |-> <<>>, forms |-> ExecForms,
                                       prices |-> probe.prices],
                                      MatchDataOf(probe.data)),
                 !.fill = IF type = "fill_form"
                            THEN fillForm(probe.o, ExecForms[probe.form],
                                          MatchDataOf(probe.data))
                            ELSE NoFill]
  /\ UNCHANGED <<isReady, browser, sessions, pageState, pageUrl, ctxState, now, calls,
                 closers, exited, started, faults, crashes>>

ReturnPrices == RunExecutor("return_prices")
ReturnContact == RunExecutor("return_contact")
FillForm == RunExecutor("fill_form")
Click == RunExecutor("click")
Navigate == RunExecutor("navigate")
Observe == RunExecutor("observe")

NextExec == ReturnPrices \/ ReturnContact \/ FillForm \/ Click \/ Navigate \/ Observe

SpecExec == InitExec /\ [][NextExec]_vars

\* Calls a run of SpecFair begins.
MaxFairCalls == 3

\* SpecFair: the hot path, one request at a time, in short runs, with the
\* progress the scheduler and the driver give: the driver settles every
\* close operation of a detached closeSession, and a result that is ready
\* is handed to its caller.
NextFair ==
  \/ Background
  \/ Steps
  \/ \E c \in Slots, id \in Ids, sm \in SiteMapRefs :
       Alone /\ started < MaxFairCalls /\ PrepareCall(c, id, sm)
  \/ \E c \in Slots, id \in Ids, req \in MainRequests :
       Alone /\ started < MaxFairCalls /\ ExecuteCall(c, id, req)
  \/ \E c \in Slots, id \in Ids : Alone /\ started < MaxFairCalls /\ CloseCall(c, id)
  \/ \E c \in Slots : Alone /\ started < MaxFairCalls /\ ShutdownCall(c)

Fairness ==
  /\ \A k \in CloserSlots : WF_vars(CloserPage(k)) /\ WF_vars(CloserCtx(k))
  /\ \A c \in Slots : WF_vars(Deliver(c))

SpecFair == Init /\ [][NextFair]_vars /\ Fairness

(***************************************************************************)
(* Properties.                                                             *)
(***************************************************************************)
\* C1: in every reachable state the number of entries in the Session Store
\* is at most MAX_SESSIONS.
C1_StoreWithinCapacity == Len(sessions) <= MAX_SESSIONS

\* The detached closeSession calls started in the step.
SpawnedClosers == {k \in CloserSlots : closers[k].pc = "idle" /\ closers'[k].pc = "page"}

\* Call c is a prepare for an id without session that passes the capacity
\* check (worker.ts:155) in the step, the store being at capacity.
PassesCheckAtCapacity(c) ==
  /\ calls[c].pc # "p_open"
  /\ calls'[c].pc = "p_open"
  /\ calls'[c].op = "prepare"
  /\ ~calls'[c].had0
  /\ Len(sessions') >= MAX_SESSIONS

\* C2: a prepare for an id without session that finds the store at capacity
\* evicts exactly one session, and that session has the smallest
\* lastActivity among the stored sessions at the capacity check.
C2_EvictsOldest ==
  [][\A c \in Slots :
       PassesCheckAtCapacity(c) =>
         /\ Cardinality(SpawnedClosers) = 1
         /\ \A k \in SpawnedClosers :
              \E i \in 1..Len(sessions') :
                /\ sessions'[i].id = closers'[k].id
                /\ sessions'[i].page = closers'[k].page
                /\ \A j \in 1..Len(sessions') :
                     sessions'[i].lastActivity <= sessions'[j].lastActivity]_vars

\* C2 witness: a prepare has just evicted a session that is not the first
\* entry of a full store, the first entry being more recently active.
C2_Witness ==
  \E c \in Slots, k \in CloserSlots, i \in 2..Len(sessions) :
    /\ calls[c].op = "prepare" /\ calls[c].pc = "p_open" /\ ~calls[c].had0
    /\ Len(sessions) >= MAX_SESSIONS
    /\ closers[k].pc = "page"
    /\ sessions[i].page = closers[k].page
    /\ sessions[i].lastActivity < sessions[1].lastActivity

\* prepare call c has returned true and the result is with the caller.
PrepareReturnedTrue(c) ==
  calls[c].op = "prepare" /\ calls[c].pc = "done" /\ calls[c].ok /\ ~calls[c].threw

\* The session for id holds exactly the site map the call was given.
HoldsGiven(c) ==
  /\ Has(sessions, calls[c].id)
  /\ Get(sessions, calls[c].id).siteMap = calls[c].sm

\* The count getStatus reports exceeds the count before the call by at most
\* 1, and not at all when the id had a session.
CountGrewAsStated(c) ==
  /\ getStatus.sessions - calls[c].size0 <= 1
  /\ calls[c].had0 => getStatus.sessions - calls[c].size0 <= 0

\* C3 as stated: when prepare(id, sd) returns true a session for id holds
\* exactly sd, and the session count grew by at most 1, by 0 when id already
\* had a session.
C3_PrepareStoresGiven ==
  \A c \in Slots : PrepareReturnedTrue(c) => HoldsGiven(c) /\ CountGrewAsStated(c)

\* C3 amended: the same, the bound on the count only when no other call
\* stored a session while the prepare was in flight.
C3_PrepareStoresGivenAlone ==
  \A c \in Slots :
    PrepareReturnedTrue(c) =>
      /\ HoldsGiven(c)
      /\ ~calls[c].overlap => CountGrewAsStated(c)

\* C3 witness: a prepare that replaced the session of its id, nothing else
\* being stored meanwhile, has returned true with the count as before.
C3_Witness ==
  \E c \in Slots :
    /\ PrepareReturnedTrue(c)
    /\ calls[c].had0 /\ ~calls[c].overlap
    /\ calls[c].sm = 2
    /\ getStatus.sessions = calls[c].size0
    /\ getStatus.sessions = MAX_SESSIONS

\* No two entries of the store have the same site identifier.
UniqueKeys ==
  \A i, j \in 1..Len(sessions) : sessions[i].id = sessions[j].id => i = j

\* The closeSession that prepare call c awaited for the existing session of
\* its id ends in the step, and the call goes on to open a new context.
PrepareFinishesClose(c) ==
  /\ calls[c].op = "prepare"
  /\ calls[c].pc \in {"cl_page", "cl_ctx"}
  /\ calls'[c].pc = "p_open"

\* The page and the context of the session the call held are closed.
HeldSessionClosed(c) ==
  /\ pageState'[calls[c].page] = "closed"
  /\ ctxState'[calls[c].ctx] = "closed"

\* C4 as stated: the store has at most one entry per id, and a prepare
\* closes the page and the context of the existing session of its id and
\* removes the entry before it opens a new context.
C4_ClosesBeforeOpening ==
  /\ []UniqueKeys
  /\ [][\A c \in Slots :
          PrepareFinishesClose(c) =>
            HeldSessionClosed(c) /\ ~Has(sessions', calls[c].id)]_vars

\* C4 amended: the entry is always removed before the new context is
\* opened; the page and the context are closed when the driver accepts the
\* close operations (a rejected close is swallowed, worker.ts:783).
C4_ClosesBeforeOpeningIfAccepted ==
  /\ []UniqueKeys
  /\ [][\A c \in Slots :
          PrepareFinishesClose(c) =>
            /\ ~Has(sessions', calls[c].id)
            /\ faults' = faults => HeldSessionClosed(c)]_vars

\* C4 witness: a prepare for an id that had a session has closed it, no
\* driver operation having been rejected, and is about to open the new
\* context while the store holds another session.
C4_Witness ==
  \E c \in Slots :
    /\ calls[c].op = "prepare" /\ calls[c].pc = "p_open" /\ calls[c].had0
    /\ faults = 0
    /\ ~Has(sessions, calls[c].id)
    /\ Len(sessions) = calls[c].size0 - 1
    /\ Len(sessions) > 0
    /\ \E h \in Handles : pageState[h] = "closed" /\ ctxState[h] = "closed"

\* prepare call c ends in the step.
PrepareEnds(c) ==
  calls'[c].op = "prepare" /\ calls[c].pc # "done" /\ calls'[c].pc = "done"

\* The step begins call c while the engine is not launched.
BeginsUnready(c) == calls[c].op = "idle" /\ (~isReady \/ browser = "none")

\* The step adds no entry to the store and changes none.
NoEntryStored ==
  \A i \in 1..Len(sessions') : \E j \in 1..Len(sessions) : sessions'[i] = sessions[j]

\* C5: prepare never throws; when the engine is not launched, or when the
\* creation of the context or of the page or the navigation fails, it
\* returns false and stores no session for the id.
C5_PrepareFailsCleanly ==
  [][\A c \in Slots :
       PrepareEnds(c) =>
         /\ ~calls'[c].threw
         /\ BeginsUnready(c) \/ faults' # faults =>
              /\ ~calls'[c].ok
              /\ NoEntryStored
              /\ ~calls'[c].overlap => ~Has(sessions', calls'[c].id)]_vars

\* C5 witness: a prepare that replaced nothing after all: it closed the
\* session of its id, then its navigation failed and it returned false.
C5_Witness ==
  \E c \in Slots :
    /\ calls[c].op = "prepare" /\ calls[c].pc = "done"
    /\ ~calls[c].ok /\ ~calls[c].threw
    /\ calls[c].had0 /\ calls[c].npage # 0
    /\ pageState[calls[c].npage] = "open"
    /\ ~Has(sessions, calls[c].id)

\* The step begins an execute call in slot c for an id without session.
ExecuteBeginsUnknown(c) ==
  /\ calls[c].op = "idle"
  /\ calls'[c].op = "execute"
  /\ ~Has(sessions, calls'[c].id)

\* C6: execute for an id without session returns success=false at once; the
\* store is unchanged (no session created, modified or closed) and no driver
\* operation is performed.
C6_UnknownIdIsInert ==
  [][\A c \in Slots :
       ExecuteBeginsUnknown(c) =>
         /\ calls'[c].pc = "done"
         /\ ~calls'[c].ok /\ ~calls'[c].threw
         /\ calls'[c].msg = MsgNoSession
         /\ ~calls'[c].acted /\ calls'[c].reprep = 0
         /\ UNCHANGED <<sessions, pageState, ctxState, browser, closers>>]_vars

\* C6 witness: execute for an unknown id has returned while the store holds
\* a session of another id, last active before the current clock value.
C6_Witness ==
  \E c \in Slots :
    /\ calls[c].op = "execute" /\ calls[c].pc = "done"
    /\ calls[c].msg = MsgNoSession
    /\ ~Has(sessions, calls[c].id)
    /\ \E i \in 1..Len(sessions) :
         sessions[i].lastActivity < now /\ pageState[sessions[i].page] = "open"

\* execute call c is running its action after its liveness probe failed and
\* the re-run of prepareSession stored a replacement session.
ActsAfterRecovery(c) ==
  /\ calls[c].op = "execute" /\ calls[c].pc = "e_act" /\ calls[c].reprep > 0
  /\ Has(sessions, calls[c].id)

\* C7: after a failed liveness probe and a successful re-run of prepare,
\* execute runs the action against the page of the replacement session
\* stored for the id, and that session holds the site map of the stale one.
C7_ActsOnReplacement ==
  \A c \in Slots :
    ActsAfterRecovery(c) =>
      /\ calls[c].page = Get(sessions, calls[c].id).page
      /\ Get(sessions, calls[c].id).siteMap = calls[c].sm

\* The re-run of prepareSession that execute call c made ends in the step.
RerunEnds(c) ==
  /\ calls[c].op = "execute" /\ calls[c].reprep = 1
  /\ calls[c].pc = "p_open"
  /\ calls'[c].pc # "p_open"

\* C8: an execute call re-runs prepare at most once; when no session for
\* the id exists after the re-run it returns success=false in the same
\* step, without another attempt and without running an action.
C8_RecreatedAtMostOnce ==
  /\ [](\A c \in Slots : calls[c].reprep <= 1)
  /\ [][\A c \in Slots :
          RerunEnds(c) /\ ~Has(sessions', calls[c].id) =>
            /\ calls'[c].pc = "done"
            /\ ~calls'[c].ok /\ ~calls'[c].threw
            /\ calls'[c].msg = MsgRecoveryFailed
            /\ ~calls'[c].acted
            /\ calls'[c].reprep = 1]_vars

\* C8 witness: execute found its page dead, re-ran prepare once, the re-run
\* failed, and execute returned the recovery failure with no action run.
C8_Witness ==
  \E c \in Slots :
    /\ calls[c].op = "execute" /\ calls[c].pc = "done"
    /\ calls[c].reprep = 1
    /\ calls[c].msg = MsgRecoveryFailed
    /\ ~calls[c].ok /\ ~calls[c].acted
    /\ ~Has(sessions, calls[c].id)

\* The messages with which the executors report that they failed.
ExecutorFailureMessages == {MsgClickFailed, MsgFillFailed, MsgNavigateFailed}

\* C9: when the selected executor fails at the driver boundary (every click
\* strategy exhausted, no form field filled, navigation failed), the result
\* execute returns carries success=false together with the failure message.
C9_ExecutorFailureReported ==
  \A c \in Slots :
    /\ calls[c].op = "execute" /\ calls[c].pc = "done"
    /\ calls[c].msg \in ExecutorFailureMessages
    => ~calls[c].ok

\* The commands C10 names.
Commands == {"prepare", "execute", "interact", "close"}

\* C10: prepare, execute, interact and close end by returning their result,
\* never by throwing, whatever driver operation failed.
C10_NoDriverFailureThrown ==
  \A c \in Slots : calls[c].op \in Commands => ~calls[c].threw

\* C10 witness: an interact call whose page died under it and whose
\* recovery was rejected by the driver has returned a failure result.
C10_Witness ==
  \E c \in Slots :
    /\ calls[c].op = "interact" /\ calls[c].pc = "done"
    /\ faults > 0 /\ crashes > 0
    /\ calls[c].reprep = 1
    /\ ~calls[c].ok /\ ~calls[c].threw
    /\ calls[c].msg = MsgRecoveryFailed

\* The step is a sweep that found an expired session (cleanupSessions).
SweepStep ==
  \E k \in CloserSlots :
    closers[k].pc = "idle" /\ closers'[k].pc = "page" /\ closers'[k].by = "sweep"

\* Session i of the store has been idle for longer than the timeout.
IdleTooLong(i) == now - sessions[i].lastActivity > SESSION_TIMEOUT

SweptSession(h) ==
  \E k \in CloserSlots :
    closers[k].pc # "idle" /\ closers[k].by = "sweep" /\ closers[k].page = h

\* The session of page h is not in the store.
AbsentSession(h) == \A i \in 1..Len(sessions) : sessions[i].page # h

CloseCompleted(c) == calls[c].op = "close" /\ calls[c].pc = "done"

\* The step begins a close call in slot c for an id without session.
CloseBeginsAbsent(c) ==
  /\ calls[c].op = "idle"
  /\ calls'[c].op = "close"
  /\ ~Has(sessions, calls'[c].id)

\* C12: when close(id) completes, id is not among the active sites status()
\* reports, whether or not the driver accepted the close of the page and of
\* the context; close(id) for an id without session completes at once and
\* leaves the store and the driver alone.
C12_CloseRemovesEntry ==
  /\ [](\A c \in Slots :
         CloseCompleted(c) => ~calls[c].threw /\ calls[c].id \notin getStatus.activeSites)
  /\ [][\A c \in Slots :
          CloseBeginsAbsent(c) =>
            /\ calls'[c].pc = "done"
            /\ UNCHANGED <<sessions, pageState, ctxState, browser, closers>>]_vars

\* C12 witness: a close has completed although the driver rejected the
\* close of the page, which is still open; the entry is gone and another
\* session remains.
C12_Witness ==
  \E c \in Slots :
    /\ CloseCompleted(c)
    /\ calls[c].page # 0
    /\ pageState[calls[c].page] = "open"
    /\ ctxState[calls[c].ctx] = "open"
    /\ faults > 0
    /\ ~Has(sessions, calls[c].id)
    /\ Len(sessions) > 0

\* shutdown call c issues the engine's close (browser.close()) in the step.
IssuesEngineClose(c) ==
  /\ calls'[c].op = "shutdown"
  /\ calls[c].pc # "sd_browser"
  /\ calls'[c].pc = "sd_browser"

\* shutdown call c has completed.
ShutdownCompleted(c) ==
  calls[c].op = "shutdown" /\ calls[c].pc = "done" /\ ~calls[c].threw

\* C13 as stated: the engine's close is issued only when no entry remains in
\* the store, and when shutdown completes the store is empty.
C13_ShutdownEmptiesStore ==
  /\ [][\A c \in Slots : IssuesEngineClose(c) => sessions' = <<>>]_vars
  /\ [](\A c \in Slots : ShutdownCompleted(c) => sessions = <<>>)

\* C13 amended: the same, the store being empty at completion when no other
\* call stored a session while shutdown ran.
C13_ShutdownEmptiesStoreAlone ==
  /\ [][\A c \in Slots : IssuesEngineClose(c) => sessions' = <<>>]_vars
  /\ [](\A c \in Slots :
         ShutdownCompleted(c) /\ ~calls[c].overlap => sessions = <<>>)

\* C13 witness: shutdown has closed the two sessions of a full store, which
\* nothing else closed (no sweep, no eviction, no close call), and has
\* issued the engine's close with the store empty.
C13_Witness ==
  \E c \in Slots :
    /\ calls[c].op = "shutdown" /\ calls[c].pc = "sd_browser"
    /\ ~calls[c].overlap
    /\ started = MAX_SESSIONS + 1 /\ now = 0 /\ faults = 0
    /\ Cardinality({h \in Handles : ctxState[h] = "closed"}) = MAX_SESSIONS
    /\ browser = "open"
    /\ sessions = <<>>

\* C14: no two entries of the Session Store share a page or a context.
C14_HandlesNotShared ==
  \A i, j \in 1..Len(sessions) :
    i # j => /\ sessions[i].page # sessions[j].page
             /\ sessions[i].context # sessions[j].context

\* C14 witness: the store holds a session that prepare created and a session
\* that interact created, each with a live page of its own, after an earlier
\* session was closed.
C14_Witness ==
  \E i, j \in 1..Len(sessions) :
    /\ sessions[i].siteMap \in SiteMapRefs
    /\ sessions[j].siteMap \in {LegacyRef, LegacyEmptyRef}
    /\ pageState[sessions[i].page] = "open"
    /\ pageState[sessions[j].page] = "open"
    /\ \E h \in Handles : ctxState[h] = "closed"

\* C15: while an id stays in the store, the lastActivity of its session
\* does not decrease from one state to the next, and is never ahead of the
\* clock.
C15_LastActivityMonotonic ==
  /\ [](\A i \in 1..Len(sessions) : sessions[i].lastActivity <= now)
  /\ [][\A id \in Ids :
          Has(sessions, id) /\ Has(sessions', id) =>
            Get(sessions', id).lastActivity >= Get(sessions, id).lastActivity]_vars

\* C15 witness: an execute that found the page of its session dead and
\* re-ran prepare is acting on the id, whose session carries the current
\* clock value, later than the other session's.
C15_Witness ==
  \E c \in Slots, i \in 1..Len(sessions) :
    /\ calls[c].op = "execute" /\ calls[c].pc = "e_act" /\ calls[c].reprep = 1
    /\ Has(sessions, calls[c].id)
    /\ Get(sessions, calls[c].id).lastActivity = now
    /\ sessions[i].lastActivity < now

\* execute call c has run its action on the page of the session stored for
\* its id and has returned.
ExecutedOnStored(c) ==
  /\ calls[c].op = "execute" /\ calls[c].pc = "done" /\ calls[c].acted
  /\ Has(sessions, calls[c].id)
  /\ Get(sessions, calls[c].id).page = calls[c].page

\* C16: after an execute against an existing session, the currentUrl of the
\* session is the current URL of its page, also when the action (a click, a
\* form submit, a navigate) took the page to another location.
C16_CurrentUrlFollowsPage ==
  \A c \in Slots :
    ExecutedOnStored(c) =>
      Get(sessions, calls[c].id).currentUrl = pageUrl[calls[c].page]

\* The arguments of the call of matchAction on its own.
ProbeKeywords == KeywordsOf(probe.words)
ProbeSiteMap == MatchSiteMapOf(probe.siteMap)
ProbeData == MatchDataOf(probe.data)

\* What each rule yields for the arguments, in the order booking, prices,
\* contact, rooms, search/submit, direct keyword overlap, default observe
\* (type "" when the rule yields no action).
RuleActions ==
  LET joined == toLowerCase(join(ProbeKeywords)) IN
  << ruleBooking(joined, ProbeSiteMap, ProbeData),
     rulePrices(joined, ProbeSiteMap),
     ruleContact(joined, ProbeSiteMap),
     ruleRooms(joined, ProbeSiteMap),
     ruleSearch(joined, ProbeSiteMap),
     ruleOverlap(ProbeKeywords, ProbeSiteMap),
     Descriptor("observe", 0, "", <<>>) >>

\* The first rule from rule r on that yields an action.
FirstRuleFrom(r) ==
  CHOOSE q \in r..7 :
    RuleActions[q].type # "" /\ \A o \in r..(q - 1) : RuleActions[o].type = ""

ActionTypes == {"fill_form", "click", "return_prices", "return_contact", "observe"}

\* C17: matchAction returns one action descriptor, the action of the first
\* rule that yields one in the order booking, prices, contact, rooms,
\* search/submit, direct keyword overlap, default observe.
C17_FirstRuleWins ==
  probe.returned =>
    /\ probe.action.type \in ActionTypes
    /\ probe.action = RuleActions[FirstRuleFrom(1)]

\* C17 witness: the rooms rule was triggered and yielded nothing, and the
\* action returned is the click of the sixth rule.
C17_Witness ==
  /\ probe.returned
  /\ probe.words = {2, 7}
  /\ FirstRuleFrom(1) = 6
  /\ probe.action.type = "click" /\ probe.action.selector = "#menu"

\* Some keyword of the request contains a word of the vocabulary.
KeywordOf(patterns) ==
  \E i \in 1..Len(ProbeKeywords), j \in 1..Len(patterns) :
    includes(toLowerCase(ProbeKeywords[i]), patterns[j])

\* The booking rule is triggered: a booking keyword, or a check-in or
\* check-out date.
BookingTriggered ==
  \/ KeywordOf(PATTERNS_booking)
  \/ ProbeData.present /\ (ProbeData.check_in # <<>> \/ ProbeData.check_out # <<>>)

\* The forms with a date-typed field or a field whose keywords intersect
\* the check-in or check-out vocabulary.
DateForms ==
  {i \in 1..Len(ProbeSiteMap.forms) :
     \E j \in 1..Len(ProbeSiteMap.forms[i].fields) :
       LET field == ProbeSiteMap.forms[i].fields[j]
           declared == {field.keywords[k] : k \in 1..Len(field.keywords)}
           vocabulary == {PATTERNS_check_in[k] : k \in 1..Len(PATTERNS_check_in)}
                           \cup {PATTERNS_check_out[k] : k \in 1..Len(PATTERNS_check_out)}
       IN field.type = "date" \/ declared \cap vocabulary # {}}

\* The buttons tagged with the action type, or whose text contains a word of
\* the vocabulary.
ButtonsFor(tag, patterns) ==
  {i \in 1..Len(ProbeSiteMap.buttons) :
     \/ ProbeSiteMap.buttons[i].action_type = tag
     \/ \E j \in 1..Len(patterns) :
          includes(toLowerCase(ProbeSiteMap.buttons[i].text), patterns[j])}

\* The smallest index of a non-empty set of indices.
First(S) == CHOOSE i \in S : \A j \in S : i <= j

\* The action returned is the click on button i.
ClicksButton(i) ==
  /\ probe.action.type = "click"
  /\ probe.action.selector = ProbeSiteMap.buttons[i].selector
  /\ probe.action.buttonText = ProbeSiteMap.buttons[i].text

\* C18: when the booking rule is triggered and the site map has a form with
\* dates, matchAction returns fill_form for the first such form, whatever
\* the buttons; when it has none but has a booking button, it returns the
\* click on the first booking button.
C18_BookingPrefersForm ==
  probe.returned /\ BookingTriggered =>
    IF DateForms # {}
      THEN probe.action.type = "fill_form" /\ probe.action.form = First(DateForms)
      ELSE /\ probe.action.type # "fill_form"
           /\ ButtonsFor("booking", PATTERNS_booking) # {} =>
                ClicksButton(First(ButtonsFor("booking", PATTERNS_booking)))

\* C18 witness: the keywords "резервация" and "стая" on a site map whose
\* second form is the first with dates and which has a booking-tagged
\* button yield fill_form for the second form.
C18_Witness ==
  /\ probe.returned
  /\ probe.words = {1, 2}
  /\ probe.data = 1
  /\ DateForms = {2, 3}
  /\ ButtonsFor("booking", PATTERNS_booking) # {}
  /\ probe.action.type = "fill_form" /\ probe.action.form = 2

\* The booking rule yields no action: it is not triggered, or the site map
\* has neither a form with dates nor a booking button.
BookingYieldsNone ==
  \/ ~BookingTriggered
  \/ DateForms = {} /\ ButtonsFor("booking", PATTERNS_booking) = {}

\* C19: with a price keyword, the booking rule yielding nothing,
\* matchAction returns return_prices exactly when the site map has a price
\* entry; with no price entry the action is that of the first rule from the
\* contact rule on.
C19_PricesNeedEntries ==
  probe.returned /\ KeywordOf(PATTERNS_prices) /\ BookingYieldsNone =>
    /\ probe.action.type = "return_prices" <=> Len(ProbeSiteMap.prices) > 0
    /\ Len(ProbeSiteMap.prices) = 0 => probe.action = RuleActions[FirstRuleFrom(3)]

\* C19 witness: the keywords "contact" and "Цена" on a site map without
\* prices yield the click of the contact rule.
C19_Witness ==
  /\ probe.returned
  /\ probe.words = {5, 9}
  /\ BookingYieldsNone
  /\ Len(ProbeSiteMap.prices) = 0
  /\ probe.action.type = "click" /\ probe.action.selector = "#mail"

\* The prices rule yields no action.
PricesYieldNone == ~KeywordOf(PATTERNS_prices) \/ Len(ProbeSiteMap.prices) = 0

\* C20: with a contact keyword, the booking and the prices rule yielding
\* nothing, matchAction returns the click on the first contact button, or
\* return_contact when the site map has no contact button.
C20_ContactIsTerminal ==
  probe.returned /\ KeywordOf(PATTERNS_contact) /\ BookingYieldsNone /\ PricesYieldNone =>
    IF ButtonsFor("contact", PATTERNS_contact) # {}
      THEN ClicksButton(First(ButtonsFor("contact", PATTERNS_contact)))
      ELSE probe.action.type = "return_contact"

\* C20 witness: the keywords "contact" and "menu" on a site map that has a
\* button declared with the keyword "menu" and no contact button yield
\* return_contact.
C20_Witness ==
  /\ probe.returned
  /\ probe.words = {5, 7}
  /\ ButtonsFor("contact", PATTERNS_contact) = {}
  /\ RuleActions[6].type = "click"
  /\ probe.action.type = "return_contact"

\* The buttons whose text contains a word of the vocabulary.
ButtonsNamed(patterns) ==
  {i \in 1..Len(ProbeSiteMap.buttons) :
     \E j \in 1..Len(patterns) :
       includes(toLowerCase(ProbeSiteMap.buttons[i].text), patterns[j])}

\* Rules 1 to 3 yield no action.
FirstThreeYieldNone ==
  BookingYieldsNone /\ PricesYieldNone /\ ~KeywordOf(PATTERNS_contact)

\* C21: with a room keyword, rules 1 to 3 yielding nothing, matchAction
\* returns the click on the first button whose text matches the room
\* vocabulary; when there is none the action is that of the first rule from
\* the search/submit rule on.
C21_RoomsFallThrough ==
  probe.returned /\ KeywordOf(PATTERNS_rooms) /\ FirstThreeYieldNone =>
    IF ButtonsNamed(PATTERNS_rooms) # {}
      THEN ClicksButton(First(ButtonsNamed(PATTERNS_rooms)))
      ELSE probe.action = RuleActions[FirstRuleFrom(5)]

\* C21 witness: the keywords "стая" and "search" on a site map without a
\* room button yield the click on the submit button, by the search rule.
C21_Witness ==
  /\ probe.returned
  /\ probe.words = {2, 6}
  /\ ButtonsNamed(PATTERNS_rooms) = {}
  /\ FirstRuleFrom(1) = 5
  /\ probe.action.type = "click" /\ probe.action.selector = "#send"

\* The rooms and the search/submit rule yield no action.
RoomsYieldNone == ~KeywordOf(PATTERNS_rooms) \/ ButtonsNamed(PATTERNS_rooms) = {}

SearchYieldsNone ==
  ~KeywordOf(PATTERNS_search) \/ ButtonsFor("submit", PATTERNS_search) = {}

\* The buttons one of whose declared keywords is a keyword of the request,
\* letter case apart.
OverlapButtons ==
  {i \in 1..Len(ProbeSiteMap.buttons) :
     LET declared == {toLowerCase(ProbeSiteMap.buttons[i].keywords[k]) :
                        k \in 1..Len(ProbeSiteMap.buttons[i].keywords)}
         asked == {toLowerCase(ProbeKeywords[k]) : k \in 1..Len(ProbeKeywords)}
     IN declared \cap asked # {}}

\* C22: when rules 1 to 5 yield nothing, matchAction returns the click on
\* the first button whose declared keywords intersect the keywords of the
\* request, and observe when there is none; the search/submit rule, like
\* the rules before it, takes the first matching button.
C22_OverlapThenObserve ==
  probe.returned =>
    /\ FirstThreeYieldNone /\ RoomsYieldNone /\ SearchYieldsNone =>
         IF OverlapButtons # {}
           THEN ClicksButton(First(OverlapButtons))
           ELSE probe.action.type = "observe"
    /\ FirstThreeYieldNone /\ RoomsYieldNone /\ ~SearchYieldsNone =>
         ClicksButton(First(ButtonsFor("submit", PATTERNS_search)))

\* C22 witness: the keyword "menu" on a site map with two buttons declared
\* with it yields the click on the first of them.
C22_Witness ==
  /\ probe.returned
  /\ probe.words = {7}
  /\ Cardinality(OverlapButtons) = 2
  /\ FirstRuleFrom(1) = 6
  /\ ClicksButton(First(OverlapButtons))
  /\ probe.action.selector = "#menu"

\* The texts of the first n price entries of the call, in order, each
\* followed by "; " except the last.
RECURSIVE Listed(_, _)
Listed(i, n) ==
  IF i > n THEN <<>>
  ELSE (IF probe.prices[i].context = <<>> THEN probe.prices[i].text
        ELSE probe.prices[i].context \o <<58, 32>> \o probe.prices[i].text)
       \o (IF i < n THEN <<59, 32>> ELSE <<>>) \o Listed(i + 1, n)

\* C23: for a non-empty price list return_prices answers "Цени: " followed
\* by the first 5 entries at most, in declaration order, each as
\* "context: text", or "text" when it has no context, joined by "; "; the
\* single entry "120 лв" of "Стандартна стая" gives
\* "Цени: Стандартна стая: 120 лв".
C23_PricesFormatted ==
  probe.returned /\ probe.type = "return_prices" /\ Len(probe.prices) > 0 =>
    /\ probe.result.message =
         <<1062, 1077, 1085, 1080, 58, 32>>
           \o Listed(1, IF Len(probe.prices) < 5 THEN Len(probe.prices) ELSE 5)
    /\ probe.prices = << [text |-> <<49, 50, 48, 32, 1083, 1074>>,
                          context |-> <<1057, 1090, 1072, 1085, 1076, 1072, 1088, 1090, 1085, 1072, 32, 1089, 1090, 1072, 1103>>] >> =>
         probe.result.message =
           <<1062, 1077, 1085, 1080, 58, 32, 1057, 1090, 1072, 1085, 1076, 1072, 1088, 1090, 1085, 1072, 32, 1089, 1090, 1072, 1103, 58, 32, 49, 50, 48, 32, 1083, 1074>>

\* C23 witness: a list of six entries, with and without context, was
\* formatted.
C23_Witness ==
  /\ probe.returned /\ probe.type = "return_prices"
  /\ Len(probe.prices) = 6
  /\ probe.prices[1].context # <<>> /\ probe.prices[2].context = <<>>
  /\ probe.prices[6].context = <<>>
  /\ probe.result.message = <<1062, 1077, 1085, 1080, 58, 32, 1057, 1090, 1072, 1085, 1076, 1072, 1088, 1090, 1085, 1072, 32, 1089, 1090, 1072, 1103, 58, 32, 49, 50, 48, 32, 1083, 1074, 59, 32, 57, 48, 32, 69, 85, 82, 59, 32, 1057, 1090, 1072, 1085, 1076, 1072, 1088, 1090, 1085, 1072, 32, 1089, 1090, 1072, 1103, 58, 32, 49, 50, 48, 32, 1083, 1074, 59, 32, 1057, 1090, 1072, 1085, 1076, 1072, 1088, 1090, 1085, 1072, 32, 1089, 1090, 1072, 1103, 58, 32, 49, 50, 48, 32, 1083, 1074, 59, 32, 57, 48, 32, 69, 85, 82>>

\* C24: return_contact on the page text "Tel: +359 88 123 4567, a@b.com"
\* answers with the phone number and the e-mail address, the phone first,
\* joined by ". "; on a text with neither it answers with the not-found
\* message.
C24_ContactReturnsBoth ==
  probe.returned /\ probe.type = "return_contact" /\ probe.o.eval =>
    /\ probe.o.text = 1 =>
         probe.result.message =
           <<1058, 1077, 1083, 1077, 1092, 1086, 1085, 58, 32, 43, 51, 53, 57, 32, 56, 56, 32, 49, 50, 51, 32, 52, 53, 54, 55, 46, 32, 69, 109, 97, 105, 108, 58, 32, 97, 64, 98, 46, 99, 111, 109>>
    /\ probe.o.text = 2 => probe.result.message = MsgNoContact

\* What return_contact answers on that text: the number without its last
\* digit.
C24_PhoneCutShort ==
  probe.returned /\ probe.type = "return_contact" /\ probe.o.eval /\ probe.o.text = 1 =>
    probe.result.message =
      <<1058, 1077, 1083, 1077, 1092, 1086, 1085, 58, 32, 43, 51, 53, 57, 32, 56, 56, 32, 49, 50, 51, 32, 52, 53, 54, 46, 32, 69, 109, 97, 105, 108, 58, 32, 97, 64, 98, 46, 99, 111, 109>>

\* The form and the data of the fill_form call.
ProbeForm == ExecForms[probe.form]
ProbeFillData == MatchDataOf(probe.data)

\* A declared keyword of the field is a word of the vocabulary, letter case
\* apart.
InVocabulary(field, patterns) ==
  \E k \in 1..Len(field.keywords), j \in 1..Len(patterns) :
    toLowerCase(field.keywords[k]) = patterns[j]

\* The datum is in the structured data of the request.
Present(datum) ==
  /\ ProbeFillData.present
  /\ CASE datum = "check_in" -> ProbeFillData.check_in # <<>>
        [] datum = "check_out" -> ProbeFillData.check_out # <<>>
        [] OTHER -> ProbeFillData.guests # 0

VocabularyOf(datum) ==
  CASE datum = "check_in" -> PATTERNS_check_in
    [] datum = "check_out" -> PATTERNS_check_out
    [] OTHER -> PATTERNS_guests

FillReturned == probe.returned /\ probe.type = "fill_form"

\* The fields the summary of the call lists.
Summarised == {probe.fill.actions[k].field : k \in 1..Len(probe.fill.actions)}

\* C25: every field fill_form writes, and lists in its summary, has a
\* declared keyword in the check-in, check-out or guest vocabulary, and the
\* value written is the datum of that vocabulary, present in the request;
\* no other field of the form is written or listed.
C25_OnlyMatchedFieldsWritten ==
  FillReturned =>
    \A k \in 1..Len(probe.fill.actions) :
      LET a == probe.fill.actions[k]
      IN /\ a.value \in {"check_in", "check_out", "guests"}
         /\ InVocabulary(ProbeForm.fields[a.field], VocabularyOf(a.value))
         /\ Present(a.value)

\* C25 witness: on a page that lets every field be filled, with the guest
\* count as the only datum, the field declared for guests and check-in is
\* the only one written, with the guest count; the check-out field and the
\* field without keywords are left alone.
C25_Witness ==
  /\ FillReturned
  /\ probe.form = 4 /\ probe.data = 3
  /\ probe.o.fill = AllFields
  /\ Len(ProbeForm.fields) = 3
  /\ probe.fill.actions = <<[field |-> 2, value |-> "guests", strategy |-> 1]>>

\* What quickObserve gives on the page of the call: the snapshot, or the
\* empty record of its catch when the page cannot be evaluated.
Observed == IF probe.o.eval THEN "snapshot" ELSE "fallback"

\* C26 as stated: the result of every executor carries an observation of
\* the page.
C26_SnapshotOnEveryExecutor ==
  probe.returned /\ ~probe.result.threw =>
    probe.result.observation \in {"snapshot", "fallback"}

\* C26: the result carries what quickObserve gives for fill_form and
\* observe, for click when a strategy passed and for navigate when the
\* page was loaded; the result of return_prices carries the stored price
\* list, and the results of return_contact, of a click whose strategies
\* all failed and of a failed navigation carry no observation.
C26_SnapshotWhereTaken ==
  probe.returned /\ ~probe.result.threw =>
    probe.result.observation =
      CASE probe.type \in {"fill_form", "observe"} -> Observed
        [] probe.type = "click" ->
             IF probe.result.message = MsgClickFailed THEN "none" ELSE Observed
        [] probe.type = "navigate" -> IF probe.o.nav THEN Observed ELSE "none"
        [] probe.type = "return_prices" -> "prices"
        [] OTHER -> "none"

\* C26 witness: return_contact found the phone number and the address on a
\* page that can be evaluated, and its result carries no observation.
C26_Witness ==
  /\ probe.returned /\ probe.type = "return_contact"
  /\ probe.o.eval /\ probe.o.text = 5
  /\ probe.result.message # MsgNoContact
  /\ probe.result.observation = "none"

\* The contexts and pages the step opens, and the pages it navigates.
OpenedContexts == {h \in Handles : ctxState[h] # "open" /\ ctxState'[h] = "open"}
OpenedPages == {h \in Handles : pageState[h] # "open" /\ pageState'[h] = "open"}
NavigatedPages == {h \in Handles : pageUrl'[h] # pageUrl[h]}

\* The step is the session creation of interact call c.
InteractCreates(c) ==
  calls[c].op = "interact" /\ calls[c].pc = "i_open" /\ calls'[c].pc # "i_open"

\* The step begins an interact call c for an id that has a session.
InteractFindsSession(c) ==
  calls[c].op = "idle" /\ calls'[c].op = "interact" /\ Has(sessions, calls'[c].id)

MidAction(c) == calls[c].op = "execute" /\ calls[c].pc = "e_act"

\* C28: an execute call whose liveness probe passes while another execute
\* call is mid-action on the same page starts its own executor on that
\* page and leaves the other call where it is: nothing makes a request
\* wait for, or give way to, the request at work on its session.
C28_NoSessionLock ==
  [][\A c, d \in Slots :
       /\ c # d /\ MidAction(d)
       /\ calls[c].op = "execute" /\ calls[c].pc = "e_probe" /\ calls'[c] # calls[c]
       /\ calls[c].page = calls[d].page /\ pageState[calls[c].page] = "open"
       /\ Matched[calls[c].sm][calls[c].req].type # "return_prices"
       => MidAction(c)' /\ calls'[d] = calls[d] /\ calls'[c].page = calls[d].page]_vars

\* C28 witness: two execute calls for the same id are both mid-action on
\* the live page of the session stored for it.
C28_Witness ==
  \E c, d \in Slots :
    /\ c # d /\ MidAction(c) /\ MidAction(d)
    /\ calls[c].id = calls[d].id /\ calls[c].page = calls[d].page
    /\ pageState[calls[c].page] = "open"
    /\ Has(sessions, calls[c].id) /\ Get(sessions, calls[c].id).page = calls[c].page

\* Field i of the form has a resolved value: a vocabulary matches it and
\* the datum of that vocabulary is in the request.
Resolved(i) ==
  \E datum \in {"check_in", "check_out", "guests"} :
    InVocabulary(ProbeForm.fields[i], VocabularyOf(datum)) /\ Present(datum)

\* The selectors of field i on which the page lets the fill succeed: 1 the
\* declared selector (when there is one), 2 the name selector, 3 the id
\* selector.
Working(i) ==
  {sel \in 1..3 : <<i, sel>> \in probe.o.fill
                   /\ (sel = 1 => ProbeForm.fields[i].selector # "")}

\* The entries of the summary for field i.
EntriesOf(i) == {k \in 1..Len(probe.fill.actions) : probe.fill.actions[k].field = i}

\* C29: a field with a resolved value is written once, through the first
\* of its declared, name and id selectors on which the fill succeeds; when
\* none succeeds the field is left out, fill_form raises no error and the
\* fields after it are handled all the same.
C29_FirstSelectorWins ==
  FillReturned /\ ProbeFillData.present =>
    /\ ~probe.fill.threw
    /\ \A i \in 1..Len(ProbeForm.fields) :
         IF Resolved(i) /\ Working(i) # {}
           THEN /\ Cardinality(EntriesOf(i)) = 1
                /\ \A k \in EntriesOf(i) : probe.fill.actions[k].strategy = First(Working(i))
           ELSE EntriesOf(i) = {}

\* C29 witness: the check-in field fails on all three selectors and is left
\* out; the guest field after it fails on its declared selector and is
\* written through the name selector, the id selector working as well.
C29_Witness ==
  /\ FillReturned /\ ~probe.fill.threw
  /\ probe.form = 1 /\ probe.data = 2
  /\ Resolved(1) /\ Working(1) = {}
  /\ Resolved(2) /\ Working(2) = {2, 3}
  /\ probe.fill.actions = <<[field |-> 2, value |-> "guests", strategy |-> 2]>>

\* The fields of the form from i on whose fill succeeds, as the summary
\* names them.
RECURSIVE FilledFrom(_)
FilledFrom(i) ==
  IF i > Len(ProbeForm.fields) THEN <<>>
  ELSE (IF Resolved(i) /\ Working(i) # {}
          THEN <<[j \in 1..Len(ProbeForm.fields[i].name) |->
                    IF ProbeForm.fields[i].name[j] \in {45, 95}
                      THEN 32 ELSE ProbeForm.fields[i].name[j]]>>
          ELSE <<>>) \o FilledFrom(i + 1)

\* The part of a summary entry before ": ".
RECURSIVE LabelOf(_, _)
LabelOf(entry, j) ==
  IF j > Len(entry) \/ (entry[j] = 58 /\ j < Len(entry) /\ entry[j + 1] = 32) THEN <<>>
  ELSE <<entry[j]>> \o LabelOf(entry, j + 1)

\* The summary of the call as execute returns it, entry by entry.
ReturnedSummary ==
  summary(ProbeForm, ProbeFillData, probe.fill.actions, probe.fill.submitted)

\* C30: fill_form activates the submit control only when a field was
\* filled; the summary names the fields whose fill succeeded, in order,
\* and nothing else, except for the submit marker, which closes it exactly
\* when the submit was activated and its click and wait succeeded; with no
\* field filled the message is the could-not-fill message.
C30_SubmitAfterFill ==
  FillReturned /\ ~probe.fill.threw =>
    /\ probe.fill.submitTried <=>
         (ProbeForm.submit_button # "" /\ FilledFrom(1) # <<>>)
    /\ probe.fill.submitted <=> (probe.fill.submitTried /\ probe.o.submit)
    /\ Len(ReturnedSummary) =
         Len(FilledFrom(1)) + (IF probe.fill.submitted THEN 1 ELSE 0)
    /\ \A k \in 1..Len(FilledFrom(1)) : LabelOf(ReturnedSummary[k], 1) = FilledFrom(1)[k]
    /\ probe.fill.submitted => ReturnedSummary[Len(ReturnedSummary)] = MsgSubmitted
    /\ probe.result.message =
         IF FilledFrom(1) = <<>> THEN MsgFillFailed
         ELSE MsgFilled \o joinWith(ReturnedSummary, <<44, 32>>)

\* C30 witness: two fields were filled, the submit control was activated
\* and its click failed: the summary is "check in: 2026-01-10, guests: 2",
\* without the marker.
C30_Witness ==
  /\ FillReturned
  /\ probe.form = 1 /\ probe.data = 2
  /\ probe.fill.submitTried /\ ~probe.fill.submitted
  /\ probe.result.message = <<1055, 1086, 1087, 1098, 1083, 1085, 1080, 1093, 58, 32, 99, 104, 101, 99, 107, 32, 105, 110, 58, 32, 50, 48, 50, 54, 45, 48, 49, 45, 49, 48, 44, 32, 103, 117, 101, 115, 116, 115, 58, 32, 50>>

\* Strategy i of the click activates an element of the page and its settle
\* wait succeeds: the declared selector, or one of the three text matches
\* when the button has a text.
Activates(i) ==
  /\ probe.o.click[i] /\ probe.o.wait[i]
  /\ i = 1 \/ probe.buttonText # <<>>

\* C31: click answers with the success message only if one of its four
\* strategies activated an element, and with the failure message when
\* every strategy fails, the case of a failing declared selector and a
\* button without text included.
C31_ClickSuccessMeansActivated ==
  probe.returned /\ probe.type = "click" =>
    (probe.result.message = MsgClickFailed <=> ~\E i \in 1..4 : Activates(i))

\* What click answers when the declared selector fails and the button has
\* no text: the success message, nothing having been activated.
C31_EmptyTextCountsAsClicked ==
  probe.returned /\ probe.type = "click"
    /\ probe.buttonText = <<>> /\ ~probe.o.click[1] /\ probe.o.wait[2] =>
      probe.result.message = MsgClicked /\ probe.result.observation # "none"

\* C32: when a prepare call has returned false after it opened a context,
\* the context and the page it opened are closed.
C32_FailedPrepareClosesHandles ==
  \A c \in Slots :
    calls[c].op = "prepare" /\ calls[c].pc = "done" /\ ~calls[c].ok /\ calls[c].nctx # 0 =>
      /\ ctxState[calls[c].nctx] = "closed"
      /\ calls[c].npage # 0 => pageState[calls[c].npage] = "closed"

\* What the catch of prepare leaves behind: the context the call opened is
\* open, owned by no session, whenever the call returns false after
\* opening it.
C32_FailedPrepareLeaksContext ==
  \A c \in Slots :
    calls[c].op = "prepare" /\ calls[c].pc = "done" /\ ~calls[c].ok /\ calls[c].nctx # 0 =>
      /\ ctxState[calls[c].nctx] = "open"
      /\ \A i \in 1..Len(sessions) : sessions[i].context # calls[c].nctx

\* The step is a step of a closeSession, awaited or detached, that was
\* started on the session of page h.
CloseStepOn(h) ==
  \/ \E c \in Slots :
       calls[c].pc \in {"cl_page", "cl_ctx"} /\ calls[c].page = h /\ calls'[c] # calls[c]
  \/ \E k \in CloserSlots :
       closers[k].pc \in {"page", "ctx"} /\ closers[k].page = h /\ closers'[k] # closers[k]

\* C33: a step of a close that was started on a session removes no other
\* session from the store, a newer session of the same id included.
C33_CloseRemovesOnlyItsEntry ==
  [][\A h \in Handles :
       CloseStepOn(h) =>
         \A i \in 1..Len(sessions) :
           sessions[i].page # h => \E j \in 1..Len(sessions') : sessions'[j] = sessions[i]]_vars

\* The step is the successful end of prepare call c, which stores its
\* session over the session that another prepare call for the same id
\* stored since c began: both calls return true.
SecondOfTwoPrepares(c) ==
  /\ calls[c].op = "prepare" /\ calls[c].pc = "p_open"
  /\ calls'[c].pc = "done" /\ calls'[c].ok
  /\ Has(sessions, calls[c].id)
  /\ crashes = 0

\* C34: when two concurrent prepare calls for one id have both returned
\* true, the context and the page of the session that was stored first are
\* closed: only those of the stored session are open for the id.
C34_OneContextPerId ==
  [][\A c \in Slots :
       SecondOfTwoPrepares(c) =>
         /\ ctxState'[Get(sessions, calls[c].id).context] = "closed"
         /\ pageState'[Get(sessions, calls[c].id).page] = "closed"]_vars

\* What the second prepare leaves behind: the context and the page of the
\* first call stay open and no session holds them.
C34_FirstContextLeaks ==
  [][\A c \in Slots :
       SecondOfTwoPrepares(c) /\ faults = 0 =>
         /\ ctxState'[Get(sessions, calls[c].id).context] = "open"
         /\ \A i \in 1..Len(sessions') :
              sessions'[i].context # Get(sessions, calls[c].id).context]_vars

\* The step is the failure of the context creation, page creation or
\* navigation of prepare call c, which began while its id had a session.
ReplacementFails(c) ==
  /\ calls[c].op = "prepare" /\ calls[c].pc = "p_open" /\ calls[c].had0
  /\ calls'[c].pc = "done" /\ faults' # faults

RerunFails(c) == RerunEnds(c) /\ faults' # faults

\* execute call c returns the recovery failure in the step.
ReturnsRecoveryFailure(c) ==
  /\ calls[c].op = "execute" /\ calls[c].pc # "done"
  /\ calls'[c].pc = "done" /\ calls'[c].msg = MsgRecoveryFailed

\* No entry of store s holds page h.
NotStored(s, h) == \A i \in 1..Len(s) : s[i].page # h

\* C36: when the liveness probe of execute fails and the re-run of prepare
\* fails too, the stale session is not in the store any more; when execute
\* returns the recovery failure the store has no session for the id, and an
\* execute that begins for an id without session returns the no-session
\* failure.
C36_StaleSessionGone ==
  [][\A c \in Slots :
       /\ RerunFails(c) => NotStored(sessions', calls[c].page)
       /\ ReturnsRecoveryFailure(c) =>
            /\ ~calls'[c].ok
            /\ ~Has(sessions', calls[c].id)
            /\ NotStored(sessions', calls[c].page)
       /\ ExecuteBeginsUnknown(c) =>
            /\ calls'[c].pc = "done" /\ ~calls'[c].ok
            /\ calls'[c].msg = MsgNoSession]_vars

\* C36 witness: an execute call whose page had died has returned the
\* recovery failure after one re-run of prepare, and the store has no
\* session for its id.
C36_Witness ==
  \E c \in Slots :
    /\ calls[c].op = "execute" /\ calls[c].pc = "done"
    /\ calls[c].reprep = 1 /\ ~calls[c].ok
    /\ calls[c].msg = MsgRecoveryFailed
    /\ pageState[calls[c].page] # "open"
    /\ ~Has(sessions, calls[c].id)

\* The fill_form call is one the matcher makes for a request without
\* structured data: the form has a date field.
FillWithoutData == FillReturned /\ ~ProbeFillData.present /\ isDateForm(ProbeForm)

\* What execute returns for the result of the executor.
ExecuteResult == executeReturn(IdleCall, probe.result)

\* A field of the form has a declared keyword in one of the three
\* vocabularies.
HasVocabularyField ==
  \E k \in 1..Len(ProbeForm.fields), v \in {"check_in", "check_out", "guests"} :
    InVocabulary(ProbeForm.fields[k], VocabularyOf(v))

\* C37: a fill_form the matcher selects for a request without structured
\* data fills no field and activates no submit control, whatever the form,
\* and execute returns success=true with the could-not-fill message.
C37_NoDataFillsNothing ==
  FillWithoutData =>
    /\ probe.fill.actions = <<>>
    /\ ~probe.fill.submitTried
    /\ ExecuteResult.ok
    /\ ExecuteResult.msg = MsgFillFailed

\* With no structured data no field is filled and no submit control is
\* activated, but execute returns the could-not-fill message only for a
\* form none of whose fields has a vocabulary keyword; for any other form
\* it returns the generic execution error with success=false.
C37_NoDataThrowsOnVocabulary ==
  FillWithoutData =>
    /\ probe.fill.actions = <<>>
    /\ ~probe.fill.submitTried
    /\ probe.result.threw <=> HasVocabularyField
    /\ ExecuteResult.ok <=> ~HasVocabularyField
    /\ ExecuteResult.msg = IF HasVocabularyField THEN MsgExecError ELSE MsgFillFailed

\* C38: whatever the keywords, the structured data and the site map,
\* matchAction returns no navigate descriptor, so the switch of execute
\* never runs navigateTo on the action: on no page does it produce the
\* result of a navigation.
C38_NeverNavigates ==
  probe.returned =>
    /\ probe.action.type # "navigate"
    /\ \A o \in LoadOracles :
         runAction(o, probe.action, ProbeSiteMap, ProbeData).message
           \notin {MsgNavigated, MsgNavigateFailed}

\* C38 witness: the rooms keyword on a site map with a button declared as
\* navigation: the matcher returns the click on that button.
C38_Witness ==
  /\ probe.returned
  /\ probe.action.type = "click"
  /\ \E k \in 1..Len(ProbeSiteMap.buttons) :
       /\ ProbeSiteMap.buttons[k].action_type = "navigation"
       /\ ProbeSiteMap.buttons[k].selector = probe.action.selector
       /\ probe.action.selector = "#rooms"

(***************************************************************************)
(* The Express application of main(), worker.ts:846-925: one request goes  *)
(* through the auth middleware and then to the route that matches it.      *)
(***************************************************************************)
\* const WORKER_SECRET = process.env.NEO_WORKER_SECRET || "...", worker.ts:20;
\* here the secret "s3".
WORKER_SECRET == <<115, 51>>

\* String.prototype.indexOf: the first position of pat in s, 0 when absent.
indexOf(s, pat) ==
  LET at == {i \in 1..(Len(s) + 1) : startsWith(s, i, pat)}
  IN IF at = {} THEN 0 ELSE CHOOSE i \in at : \A j \in at : i <= j

\* String.prototype.replace with a string pattern: the first occurrence
\* only.
replace(s, pat, by) ==
  LET i == indexOf(s, pat)
  IN IF i = 0 THEN s
     ELSE SubSeq(s, 1, i - 1) \o by \o SubSeq(s, i + Len(pat), Len(s))

\* "Bearer "
BearerPrefix == <<66, 101, 97, 114, 101, 114, 32>>

\* req.headers.authorization?.replace("Bearer ", ""), worker.ts:856; an
\* absent header gives undefined.
tokenOf(authorization) ==
  IF authorization.present
    THEN [defined |-> TRUE, text |-> replace(authorization.text, BearerPrefix, <<>>)]
    ELSE [defined |-> FALSE, text |-> <<>>]

\* A comparison that takes the absent token for the secret.
tokenAcceptedOrAbsent(token) == ~token.defined \/ token.text = WORKER_SECRET

\* !(token !== WORKER_SECRET), worker.ts:857.
tokenAccepted(token) == token.defined /\ token.text = WORKER_SECRET

\* The paths the middleware lets through unchecked, worker.ts:854.
isOpenPath(path) == path = "/" \/ path = "/health"

\* The Authorization headers of the requests: none, the secret as bearer
\* token, another bearer token, the secret without scheme, the scheme in
\* lower case, two spaces, the scheme twice, the bare scheme, the secret
\* with a trailing space, another scheme.
NoHeader == [present |-> FALSE, text |-> <<>>]
Header(text) == [present |-> TRUE, text |-> text]
AuthHeaders ==
  { NoHeader,
    Header(BearerPrefix \o WORKER_SECRET),
    Header(BearerPrefix \o <<120>>),
    Header(WORKER_SECRET),
    Header(<<98, 101, 97, 114, 101, 114, 32>> \o WORKER_SECRET),
    Header(BearerPrefix \o <<32>> \o WORKER_SECRET),
    Header(BearerPrefix \o BearerPrefix \o WORKER_SECRET),
    Header(BearerPrefix),
    Header(BearerPrefix \o WORKER_SECRET \o <<32>>),
    Header(<<66, 97, 115, 105, 99, 32>> \o WORKER_SECRET),
    Header(<<>>) }

\* The paths of the requests, each with the route path Express matches it
\* to (routing ignores letter case and a trailing slash; req.path does not).
AuthPaths ==
  { [path |-> "/", route |-> "/"],
    [path |-> "/health", route |-> "/health"],
    [path |-> "/Health", route |-> "/health"],
    [path |-> "/ping", route |-> "none"],
    [path |-> "/prepare-session", route |-> "/prepare-session"],
    [path |-> "/execute", route |-> "/execute"],
    [path |-> "/execute/", route |-> "/execute"],
    [path |-> "/close-session", route |-> "/close-session"],
    [path |-> "/interact", route |-> "/interact"],
    [path |-> "/close", route |-> "/close"],
    [path |-> "/command", route |-> "none"] }

\* One request: method, path, Authorization header, whether the body has
\* the fields its route asks for; where it is in the application, the
\* status of the answer and the operation of the manager it reached.
HttpRequests ==
  { [method |-> m, path |-> p.path, route |-> p.route, authorization |-> h,
     body |-> b, stage |-> "received", status |-> 0, reached |-> "none"] :
      m \in {"GET", "POST"}, p \in AuthPaths, h \in AuthHeaders, b \in BOOLEAN }

InitAuth ==
  /\ ManagerInit
  /\ probe \in HttpRequests

ManagerUntouched ==
  UNCHANGED <<isReady, browser, sessions, pageState, pageUrl, ctxState, now, calls,
              closers, exited, started, faults, crashes>>

\* res.status(...).json(...) or res.json(...): the request is answered.
Answer(status, reached) ==
  /\ probe' = [probe EXCEPT !.stage = "answered", !.status = status, !.reached = reached]
  /\ ManagerUntouched

\* The auth middleware, worker.ts:853-862.
authMiddleware ==
  /\ probe.stage = "received"
  /\ IF isOpenPath(probe.path) \/ tokenAccepted(tokenOf(probe.authorization))
       THEN probe' = [probe EXCEPT !.stage = "routing"] /\ ManagerUntouched
       ELSE Answer(401, "none")

Routed(method, route) ==
  probe.stage = "routing" /\ probe.method = method /\ probe.route = route

\* app.get("/"), worker.ts:865-872.
GetRoot == Routed("GET", "/") /\ Answer(200, "none")

\* app.get("/health"), worker.ts:875-880.
GetHealth == Routed("GET", "/health") /\ Answer(200, "getStatus")

\* app.post("/prepare-session"), worker.ts:883-891.
PostPrepareSession ==
  /\ Routed("POST", "/prepare-session")
  /\ Answer(200, IF probe.body THEN "prepareSession" ELSE "none")

\* app.post("/execute"), worker.ts:893-901.
PostExecute ==
  /\ Routed("POST", "/execute")
  /\ Answer(200, IF probe.body THEN "execute" ELSE "none")

\* app.post("/close-session"), worker.ts:903-908.
PostCloseSession ==
  /\ Routed("POST", "/close-session")
  /\ Answer(200, IF probe.body THEN "closeSession" ELSE "none")

\* app.post("/interact"), worker.ts:910-918.
PostInteract ==
  /\ Routed("POST", "/interact")
  /\ Answer(200, IF probe.body THEN "interact" ELSE "none")

\* app.post("/close"), worker.ts:920-925.
PostClose ==
  /\ Routed("POST", "/close")
  /\ Answer(200, IF probe.body THEN "closeSession" ELSE "none")

\* No route of the application matches: Express answers 404.
NotFound ==
  /\ probe.stage = "routing"
  /\ \/ probe.route = "none"
     \/ probe.method = "GET" /\ probe.route \notin {"/", "/health"}
     \/ probe.method = "POST" /\ probe.route \in {"/", "/health"}
  /\ Answer(404, "none")

NextAuth ==
  \/ authMiddleware
  \/ GetRoot
  \/ GetHealth
  \/ PostPrepareSession
  \/ PostExecute
  \/ PostCloseSession
  \/ PostInteract
  \/ PostClose
  \/ NotFound

SpecAuth == InitAuth /\ [][NextAuth]_vars

\* The request is to a path the claim leaves out.
ExemptPath == probe.path \in {"/", "/health", "/ping"}

\* The bearer token of the request is the configured secret.
HasSecret ==
  /\ probe.authorization.present
  /\ tokenOf(probe.authorization).text = WORKER_SECRET

\* C39: a request to a path other than "/", "/health" and "/ping" whose
\* bearer token is not the configured secret is answered with status 401 by
\* the middleware and reaches no operation of the manager, whose state it
\* leaves as it was.
C39_UnauthorizedRejected ==
  /\ probe.stage # "received" /\ ~ExemptPath /\ ~HasSecret =>
       /\ probe.stage = "answered"
       /\ probe.status = 401
       /\ probe.reached = "none"
  /\ probe.reached \notin {"none", "getStatus"} => HasSecret
  /\ sessions = <<>> /\ \A c \in Slots : calls[c].op = "idle"

\* C39 witness: a POST to /execute with a well-formed body and a bearer
\* token other than the secret has been answered 401.
C39_Witness ==
  /\ probe.method = "POST" /\ probe.path = "/execute" /\ probe.body
  /\ probe.authorization = Header(BearerPrefix \o <<120>>)
  /\ probe.stage = "answered"
  /\ probe.status = 401
  /\ probe.reached = "none"

(***************************************************************************)
(* The edge function, src/supabase/execute-action.ts: a legacy request     *)
(* (body.type) is converted to a list of worker commands, which the        *)
(* handler sends to the worker one after the other.                        *)
(***************************************************************************)
Command(action, target) == [action |-> action, target |-> target]

\* convertLegacyAction, execute-action.ts:175-217.  The payload says
\* whether it has a name, an email, and whether its mode is "execute".
convertLegacyAction(type, payload) ==
  IF type \in {"assistedBooking", "assisted_booking"}
    THEN <<Command("open", ""), Command("look", "")>>
           \o (IF payload.name THEN <<Command("fill", "name")>> ELSE <<>>)
           \o (IF payload.email THEN <<Command("fill", "email")>> ELSE <<>>)
           \o (IF payload.execute THEN <<Command("submit", "")>> ELSE <<>>)
    ELSE <<Command("open", ""), Command("look", "")>>

\* The `success` of a worker answer: true, false, or not in the answer.
SuccessValues == {"true", "false", "undefined"}

\* A loop that goes on after any answer.
stopsNever(success) == FALSE

\* if (!results[results.length - 1].success) break; execute-action.ts:114
stops(success) == success # "true"

LegacyTypes ==
  {"autoAvailability", "availability", "exploreBooking", "explore_booking",
   "assistedBooking", "assisted_booking", "other", ""}

EdgeRequests ==
  { [type |-> t, payload |-> [name |-> n, email |-> e, execute |-> x],
     commands |-> <<>>, sent |-> <<>>, steps |-> <<>>,
     stage |-> "received", status |-> 0, success |-> "undefined"] :
      t \in LegacyTypes, n \in BOOLEAN, e \in BOOLEAN, x \in BOOLEAN }

InitEdge ==
  /\ ManagerInit
  /\ probe \in EdgeRequests

\* new Response(JSON.stringify({success, ...}), {status})
Respond(rec, status, success) ==
  [rec EXCEPT !.stage = "answered", !.status = status, !.success = success]

\* The handler up to the first fetch (execute-action.ts:97-105): the
\* commands are computed and the first one is sent.
LegacyRequest ==
  /\ probe.stage = "received"
  /\ probe.type # ""
  /\ LET commands == convertLegacyAction(probe.type, probe.payload)
     IN probe' = [probe EXCEPT !.commands = commands, !.sent = <<commands[1]>>,
                               !.stage = "waiting"]
  /\ ManagerUntouched

\* Neither command nor type (execute-action.ts:129-135).
MissingType ==
  /\ probe.stage = "received"
  /\ probe.type = ""
  /\ probe' = Respond(probe, 400, "false")
  /\ ManagerUntouched

\* The worker answers the command in flight (execute-action.ts:106-127):
\* the answer is recorded; the loop stops on an answer that is not
\* successful or after the last command, and the response is built from the
\* last answer; otherwise the next command is sent.
WorkerAnswers(success) ==
  /\ probe.stage = "waiting"
  /\ LET steps == Append(probe.steps, success)
         rec == [probe EXCEPT !.steps = steps]
     IN probe' = IF stops(success) \/ Len(steps) = Len(probe.commands)
                   THEN Respond(rec, 200, steps[Len(steps)])
                   ELSE [rec EXCEPT !.sent = Append(@, probe.commands[Len(steps) + 1])]
  /\ ManagerUntouched

\* fetch or response.json() rejects: the catch answers 500
\* (execute-action.ts:137-146).
WorkerUnreachable ==
  /\ probe.stage = "waiting"
  /\ probe' = Respond(probe, 500, "false")
  /\ ManagerUntouched

NextEdge ==
  \/ LegacyRequest
  \/ MissingType
  \/ \E success \in SuccessValues : WorkerAnswers(success)
  \/ WorkerUnreachable

SpecEdge == InitEdge /\ [][NextEdge]_vars

\* C40: the commands sent are the first commands of the converted list, in
\* its order; a command is sent only when every command before it has been
\* answered with success; and the response to the request has the success
\* of the answer to the last command sent (success=false when that command
\* got no answer).
C40_CommandsInOrderUntilFailure ==
  probe.stage \in {"waiting", "answered"} /\ probe.type # "" =>
    /\ probe.commands = convertLegacyAction(probe.type, probe.payload)
    /\ Len(probe.sent) <= Len(probe.commands)
    /\ probe.sent = SubSeq(probe.commands, 1, Len(probe.sent))
    /\ Len(probe.steps) <= Len(probe.sent)
    /\ Len(probe.sent) <= Len(probe.steps) + 1
    /\ \A k \in 1..(Len(probe.sent) - 1) : probe.steps[k] = "true"
    /\ probe.stage = "waiting" => Len(probe.sent) = Len(probe.steps) + 1
    /\ probe.stage = "answered" /\ probe.status = 200 =>
         /\ Len(probe.steps) = Len(probe.sent)
         /\ probe.success = probe.steps[Len(probe.steps)]
         /\ probe.success = "true" => probe.sent = probe.commands
    /\ probe.stage = "answered" /\ probe.status # 200 =>
         /\ probe.status = 500 /\ probe.success = "false"
         /\ Len(probe.sent) = Len(probe.steps) + 1

\* C40 witness: an assisted booking with name, email and mode "execute"
\* gives five commands; the third answer is a failure, the last two
\* commands were not sent and the response has success=false.
C40_Witness ==
  /\ probe.type = "assistedBooking"
  /\ Len(probe.commands) = 5
  /\ probe.stage = "answered" /\ probe.status = 200
  /\ probe.steps = <<"true", "true", "false">>
  /\ probe.sent = <<Command("open", ""), Command("look", ""), Command("fill", "name")>>
  /\ probe.success = "false"

====
